---- MODULE Spec2Model ----
(***************************************************************************)
(* Model of the job execution and resource-coordination layer of scrap2:   *)
(*   - the funds session pool (src/funds-session-pool.ts, kept here as     *)
(*     src/unnamed/part_002 lines 1-246),                                  *)
(*   - the JobManager (src/src/jobs.ts),                                   *)
(*   - the verify / re-submit / balance fallback of a funds job            *)
(*     (src/src/deposit-job.ts).                                           *)
(* Every await of the source is a suspension point: the code between two   *)
(* awaits is one action.                                                   *)
(***************************************************************************)
EXTENDS Integers, Sequences, FiniteSets, TLC

\* ------------------------------------------------------------------------
\* Bounds
\* ------------------------------------------------------------------------
\* number of acquireFundsSessionLease calls; calls are numbered in the order
\* in which they are made
MaxCalls == 3
\* the clock (Date.now()) runs from 0 to MaxTime
MaxTime == 2
\* number of job requests handed to JobManager.enqueue
MaxJobs == 4
\* number of further release() / invalidate() calls made on leases that were
\* already released or invalidated
MaxExtraCalls == 2
\* number of getById calls on the record whose objects are followed
MaxGets == 2
\* length of the values given to hasExactUsernameMatch
MaxValueLen == 4
\* number of candidates given to selectDepositRowIndex
MaxRows == 3
\* length of the texts given to the money parsers
MaxMoneyLen == 5
\* number of polls of waitForDepositResult before its timeout
MaxPolls == 2

\* ------------------------------------------------------------------------
\* Session pool: configuration
\* ------------------------------------------------------------------------
\* getPoolTtlMs(), in clock ticks
PoolTtl == 1
\* getPoolMaxAgents()
PoolMaxAgents == 2
\* getPoolEnabled(): FUNDS_SESSION_CACHE_ENABLED unset
PoolEnabled == TRUE
\* the process-wide AppConfig fields that runDepositJob does not override
AppBaseUrl == "https://console"
AppBlockResources == TRUE

Calls == 1..MaxCalls
Times == 0..MaxTime

\* the runtimeConfig values the calls are made with (agent, execution options)
\* a request of runDepositJob: the process-wide AppConfig with the job's
\* execution options
JobRequest(agent, headless, debug, slowMo) ==
  [agent |-> agent, baseUrl |-> AppBaseUrl, headless |-> headless,
   blockResources |-> AppBlockResources, debug |-> debug, slowMo |-> slowMo]

Requests ==
  { JobRequest("a1",  TRUE,  FALSE, 0),
    JobRequest(" A1", FALSE, FALSE, 0),
    JobRequest("a2",  TRUE,  FALSE, 0),
    JobRequest("a1",  TRUE,  TRUE,  0),
    JobRequest("a1",  TRUE,  FALSE, 250) }

\* acquireFundsSessionLease called with other configurations as well: the
\* same one under another spelling of the agent, one that differs in the
\* headless flag only, and one of another agent on another console with
\* resource blocking off
KeyRequests ==
  { JobRequest("a1",  TRUE,  FALSE, 0),
    JobRequest(" A1", TRUE,  FALSE, 0),
    JobRequest("a1",  FALSE, FALSE, 0),
    [JobRequest("a2", TRUE, FALSE, 0) EXCEPT !.baseUrl = "https://console2",
                                             !.blockResources = FALSE] }

NoRequest == JobRequest("", FALSE, FALSE, 0)

\* agent.trim().toLowerCase()
NormalizeAgent(agent) ==
  CASE agent = " A1" -> "a1"
    [] OTHER -> agent

\* bug: the slow-motion delay is not looked at
isTurboLike_debugOnly(cfg) == ~cfg.debug

isTurboLike(cfg) == ~cfg.debug /\ cfg.slowMo = 0

\* bug: the headless flag is left out of the key
buildCacheKey_noHeadless(agent, cfg) ==
  <<NormalizeAgent(agent), cfg.baseUrl, TRUE, cfg.blockResources>>

buildCacheKey(agent, cfg) ==
  <<NormalizeAgent(agent), cfg.baseUrl, cfg.headless, cfg.blockResources>>

PoolingAllowed(cfg) == PoolEnabled /\ isTurboLike(cfg)

VARIABLES
  now,        \* Date.now()
  pc,         \* pc[c]: where call c of acquireFundsSessionLease / its lease is
  req,        \* req[c]: the (agent, cfg) call c was made with
  entries,    \* the entries Map, in insertion order: <<[key, sess, lastUsedAt]>>
  locks,      \* the locks Map: key -> call whose queuePromise is stored (0: none)
  prev,       \* prev[c]: the call whose queuePromise is c's `previous` (0: resolved)
  unlocked,   \* unlocked[c]: c's `hold` promise is resolved
  released,   \* released[c]: the lease's `released` flag
  entryOf,    \* entryOf[c]: the session of c's local `entry` (0: undefined)
  usable,     \* usable[c]: result of isEntryUsable(entry) at the probe
  reused,     \* reused[c]
  closing,    \* closing[c]: session whose closeEntry c is awaiting (0: none)
  sweepNow,   \* sweepNow[c]: `now` of c's running evictExpiredEntries
  alive,      \* alive[s]: the page of session s is open
  relTime,    \* relTime[c]: clock when c's lease was released (-1: not yet)
  evictedBy   \* evictedBy[s]: how session s left the entries map

poolVars == <<now, pc, req, entries, locks, prev, unlocked, released, entryOf,
              usable, reused, closing, sweepNow, alive, relTime, evictedBy>>

VARIABLES
  expiredAtGrant, \* expiredAtGrant[c]: while c is in its acquire, the session that
                  \* was stored under c's key, older than the TTL, when c got
                  \* the mutex (0: none)
  extraCalls      \* number of release() / invalidate() calls made so far on
                  \* leases whose `released` flag was already set

leaseVars == <<expiredAtGrant, extraCalls>>

VARIABLES
  jobs,       \* JobManager.entries: id -> JobStoreEntry (status "absent": no entry)
  limQueue,   \* the limiter's queue of callbacks not yet started, in arrival order
  limActive,  \* the jobs whose callback occupies a slot of the limiter
  executing,  \* the jobs whose executor promise is pending
  sweepOn,    \* the cleanupTimer interval is armed
  got         \* the last record a caller of getById kept: its id, the time
              \* of the call and the copy returned

jobVars == <<jobs, limQueue, limActive, executing, sweepOn, got>>

VARIABLES
  fj          \* the run of runDepositJob under study, the page it drives and the
              \* account it moves money on (fields below)

fundsVars == <<fj>>

VARIABLES
  cp          \* the objects behind one job's record: the heap of objects, the
              \* stored entry and the objects a caller of getById holds

VARIABLES
  atShutdown  \* the jobs that were queued or running when shutdown() was called

VARIABLES
  um,         \* a value, a username and the results of hasExactUsernameMatch
  rs,         \* a list of candidates, a username and the results of
              \* selectDepositRowIndex on orderings of the list
  mp,         \* a text and what a money parser made of it
  eo,         \* an AppConfig, the execution fields of a request body and what a
              \* POST handler enqueued for them
  wp          \* a call of waitForDepositResult: where it is suspended, the page
              \* it polls and what it returned

pureVars == <<um, rs, mp, eo, wp>>

auxVars == <<cp, atShutdown, pureVars>>

vars == <<poolVars, leaseVars, jobVars, fundsVars, auxVars>>

\* ------------------------------------------------------------------------
\* Session pool: helpers
\* ------------------------------------------------------------------------
KeyOf(c) == buildCacheKey(req[c].agent, req[c])

AllKeys == { buildCacheKey(r.agent, r) : r \in Requests \cup KeyRequests }

\* index of the entry stored under key k (0: absent)
IndexOfKey(ents, k) ==
  IF \E i \in 1..Len(ents) : ents[i].key = k
    THEN CHOOSE i \in 1..Len(ents) : ents[i].key = k
    ELSE 0

HasKey(ents, k) == IndexOfKey(ents, k) # 0

\* entries.delete at position i
RemoveAt(ents, i) ==
  [j \in 1..(Len(ents) - 1) |-> IF j < i THEN ents[j] ELSE ents[j + 1]]

\* entries.set(key, entry): a new key goes last, an existing key keeps its place
MapSet(ents, e) ==
  IF HasKey(ents, e.key)
    THEN [ents EXCEPT ![IndexOfKey(ents, e.key)] = e]
    ELSE Append(ents, e)

\* entry.lastUsedAt = t on the entry object of session s, if it is still stored
Touch(ents, s, t) ==
  [i \in 1..Len(ents) |->
     IF ents[i].sess = s THEN [ents[i] EXCEPT !.lastUsedAt = t] ELSE ents[i]]

\* bug: `previous` is always taken as Promise.resolve(), the lock map ignored
QueueResolved_nochain(c) == TRUE

\* the queuePromise of call c is resolved: previous.then(() => hold)
RECURSIVE QueueResolved(_)
QueueResolved(c) ==
  IF c = 0 THEN TRUE ELSE unlocked[c] /\ QueueResolved(prev[c])

\* bug: an entry is kept one tick longer than the TTL
ExpiredIdx_lenient(ents, t) ==
  { i \in 1..Len(ents) : ~(t - ents[i].lastUsedAt <= PoolTtl + 1) }

\* evictExpiredEntries: the entries whose age exceeds the TTL at time t
ExpiredIdx(ents, t) == { i \in 1..Len(ents) : ~(t - ents[i].lastUsedAt <= PoolTtl) }

FirstIdx(S) == CHOOSE i \in S : \A j \in S : i <= j

\* bug: the entry stored first is taken, whatever its lastUsedAt
OldestIdx_first(ents) == 1

\* evictOldestIfNeeded: first entry, in iteration order, with the least lastUsedAt
OldestIdx(ents) ==
  CHOOSE i \in 1..Len(ents) :
    /\ \A j \in 1..Len(ents) : ents[i].lastUsedAt <= ents[j].lastUsedAt
    /\ \A j \in 1..(i - 1) : ents[j].lastUsedAt > ents[i].lastUsedAt

\* finishLock(): unlock(); delete the lock entry if it is still this call's
finishLockUnlocked(c) == [unlocked EXCEPT ![c] = TRUE]
\* bug: the lock entry is deleted without the `=== queuePromise` test
finishLockLocks_always(c) == [locks EXCEPT ![KeyOf(c)] = 0]

finishLockLocks(c) ==
  IF locks[KeyOf(c)] = c THEN [locks EXCEPT ![KeyOf(c)] = 0] ELSE locks

\* closeEntry(entry) settles: both close() calls are caught, so it never
\* throws; a failed close may leave the page open
CloseOutcome(s, ok) == IF ok THEN [alive EXCEPT ![s] = FALSE] ELSE alive

\* ------------------------------------------------------------------------
\* Session pool: initial state
\* ------------------------------------------------------------------------
PoolInit ==
  /\ now = 0
  /\ pc = [c \in Calls |-> "idle"]
  /\ req = [c \in Calls |-> NoRequest]
  /\ entries = <<>>
  /\ locks = [k \in AllKeys |-> 0]
  /\ prev = [c \in Calls |-> 0]
  /\ unlocked = [c \in Calls |-> FALSE]
  /\ released = [c \in Calls |-> FALSE]
  /\ entryOf = [c \in Calls |-> 0]
  /\ usable = [c \in Calls |-> FALSE]
  /\ reused = [c \in Calls |-> FALSE]
  /\ closing = [c \in Calls |-> 0]
  /\ sweepNow = [c \in Calls |-> 0]
  /\ alive = [s \in Calls |-> FALSE]
  /\ relTime = [c \in Calls |-> -1]
  /\ evictedBy = [s \in Calls |-> "none"]
  /\ expiredAtGrant = [c \in Calls |-> 0]
  /\ extraCalls = 0

\* ------------------------------------------------------------------------
\* Session pool: acquireFundsSessionLease, one action per stretch of code
\* between two awaits
\* ------------------------------------------------------------------------
Pooled(c) == PoolingAllowed(req[c])

\* lines 153-180: the synchronous head of the call, up to `await previous`
\* (pooled) or `await createSession` (isolated)
Call(c, r) ==
  /\ pc[c] = "idle"
  /\ (IF c = 1 THEN TRUE ELSE pc[c - 1] # "idle")
  /\ req' = [req EXCEPT ![c] = r]
  /\ IF PoolingAllowed(r)
       THEN LET k == buildCacheKey(r.agent, r) IN
            /\ prev' = [prev EXCEPT ![c] = locks[k]]
            /\ locks' = [locks EXCEPT ![k] = c]
            /\ pc' = [pc EXCEPT ![c] = "waitLock"]
       ELSE /\ pc' = [pc EXCEPT ![c] = "isoCreating"]
            /\ UNCHANGED <<prev, locks>>
  /\ UNCHANGED <<now, entries, unlocked, released, entryOf, usable, reused,
                 closing, sweepNow, alive, relTime, evictedBy>>

\* lines 84-91: the loop of evictExpiredEntries from its current position, up
\* to the next `await closeEntry` or to its return
SweepFrom(c, t) ==
  LET ex == ExpiredIdx(entries, t) IN
  /\ IF ex # {}
       THEN LET i == FirstIdx(ex) IN
            /\ sweepNow' = [sweepNow EXCEPT ![c] = t]
            /\ entries' = RemoveAt(entries, i)
            /\ closing' = [closing EXCEPT ![c] = entries[i].sess]
            /\ evictedBy' = [evictedBy EXCEPT ![entries[i].sess] = "ttl"]
            /\ pc' = [pc EXCEPT ![c] = "sweepClose"]
       ELSE /\ sweepNow' = [sweepNow EXCEPT ![c] = 0]
            /\ pc' = [pc EXCEPT ![c] = "swept"]
            /\ closing' = [closing EXCEPT ![c] = 0]
            /\ UNCHANGED <<entries, evictedBy>>

\* line 180 resumes once `previous` is resolved; lines 82-90
LockGranted(c) ==
  /\ pc[c] = "waitLock"
  /\ QueueResolved(prev[c])
  /\ SweepFrom(c, now)
  /\ UNCHANGED <<now, req, locks, prev, unlocked, released, entryOf, usable,
                 reused, alive, relTime>>

\* line 90 resumes: closeEntry of an expired entry settled; the loop goes on
SweepCloseDone(c, ok) ==
  /\ pc[c] = "sweepClose"
  /\ alive' = CloseOutcome(closing[c], ok)
  /\ SweepFrom(c, sweepNow[c])
  /\ UNCHANGED <<now, req, locks, prev, unlocked, released, entryOf, usable,
                 reused, relTime>>

\* lines 95-120: evictOldestIfNeeded on the map ents, up to `await closeEntry`
\* or to its return and the call of createSession (line 197)
EvictOldestFrom(c, ents, evb) ==
  IF Len(ents) < PoolMaxAgents
    THEN /\ entries' = ents
         /\ evictedBy' = evb
         /\ closing' = [closing EXCEPT ![c] = 0]
         /\ pc' = [pc EXCEPT ![c] = "creating"]
    ELSE LET i == OldestIdx(ents) IN
         /\ entries' = RemoveAt(ents, i)
         /\ evictedBy' = [evb EXCEPT ![ents[i].sess] = "capacity"]
         /\ closing' = [closing EXCEPT ![c] = ents[i].sess]
         /\ pc' = [pc EXCEPT ![c] = "evictClose"]

\* lines 183-187 and 195-196: look the key up; probe the entry found, or go on
\* to the capacity eviction when there is none
Lookup(c) ==
  /\ pc[c] = "swept"
  /\ IF HasKey(entries, KeyOf(c))
       THEN LET e == entries[IndexOfKey(entries, KeyOf(c))] IN
            /\ entryOf' = [entryOf EXCEPT ![c] = e.sess]
            /\ usable' = [usable EXCEPT ![c] = alive[e.sess]]
            /\ pc' = [pc EXCEPT ![c] = "probing"]
            /\ UNCHANGED <<entries, evictedBy, closing>>
       ELSE /\ EvictOldestFrom(c, entries, evictedBy)
            /\ UNCHANGED <<entryOf, usable>>
  /\ UNCHANGED <<now, req, locks, prev, unlocked, released, reused, sweepNow,
                 alive, relTime>>

\* line 187 resumes: lines 188-190 (unusable) or 200-245 (reuse, lease returned)
ProbeDone(c) ==
  /\ pc[c] = "probing"
  /\ IF usable[c]
       THEN /\ reused' = [reused EXCEPT ![c] = TRUE]
            /\ entries' = Touch(entries, entryOf[c], now)
            /\ pc' = [pc EXCEPT ![c] = "holding"]
            /\ UNCHANGED <<entryOf, closing, evictedBy>>
       ELSE LET i == IndexOfKey(entries, KeyOf(c)) IN
            /\ entries' = IF i = 0 THEN entries ELSE RemoveAt(entries, i)
            /\ evictedBy' = IF i = 0 THEN evictedBy
                            ELSE [evictedBy EXCEPT ![entries[i].sess] = "stale"]
            /\ closing' = [closing EXCEPT ![c] = entryOf[c]]
            /\ entryOf' = [entryOf EXCEPT ![c] = 0]
            /\ pc' = [pc EXCEPT ![c] = "staleClose"]
            /\ UNCHANGED reused
  /\ UNCHANGED <<now, req, locks, prev, unlocked, released, usable, sweepNow,
                 alive, relTime>>

\* line 190 resumes: the unusable entry is closed; lines 195-196
StaleCloseDone(c, ok) ==
  /\ pc[c] = "staleClose"
  /\ alive' = CloseOutcome(closing[c], ok)
  /\ EvictOldestFrom(c, entries, evictedBy)
  /\ UNCHANGED <<now, req, locks, prev, unlocked, released, entryOf, usable,
                 reused, sweepNow, relTime>>

\* line 120 resumes: the evicted oldest entry is closed; line 197
EvictCloseDone(c, ok) ==
  /\ pc[c] = "evictClose"
  /\ alive' = CloseOutcome(closing[c], ok)
  /\ closing' = [closing EXCEPT ![c] = 0]
  /\ pc' = [pc EXCEPT ![c] = "creating"]
  /\ UNCHANGED <<now, req, entries, locks, prev, unlocked, released, entryOf,
                 usable, reused, sweepNow, relTime, evictedBy>>

\* line 197 resumes with the new session: lines 198-199 and 208-245
CreateDone(c) ==
  /\ pc[c] = "creating"
  /\ entries' = MapSet(entries, [key |-> KeyOf(c), sess |-> c, lastUsedAt |-> now])
  /\ entryOf' = [entryOf EXCEPT ![c] = c]
  /\ alive' = [alive EXCEPT ![c] = TRUE]
  /\ pc' = [pc EXCEPT ![c] = "holding"]
  /\ UNCHANGED <<now, req, locks, prev, unlocked, released, usable, reused,
                 closing, sweepNow, relTime, evictedBy>>

\* line 197 throws (chromium.launch / newContext / newPage rejected): the
\* error leaves acquireFundsSessionLease, nothing else runs
CreateFailed(c) ==
  /\ pc[c] = "creating"
  /\ pc' = [pc EXCEPT ![c] = "failed"]
  /\ UNCHANGED <<now, req, entries, locks, prev, unlocked, released, entryOf,
                 usable, reused, closing, sweepNow, alive, relTime, evictedBy>>

\* lines 155-168: the isolated session is created and its lease returned
IsoCreateDone(c) ==
  /\ pc[c] = "isoCreating"
  /\ entryOf' = [entryOf EXCEPT ![c] = c]
  /\ alive' = [alive EXCEPT ![c] = TRUE]
  /\ pc' = [pc EXCEPT ![c] = "holding"]
  /\ UNCHANGED <<now, req, entries, locks, prev, unlocked, released, usable,
                 reused, closing, sweepNow, relTime, evictedBy>>

IsoCreateFailed(c) ==
  /\ pc[c] = "isoCreating"
  /\ pc' = [pc EXCEPT ![c] = "failed"]
  /\ UNCHANGED <<now, req, entries, locks, prev, unlocked, released, entryOf,
                 usable, reused, closing, sweepNow, alive, relTime, evictedBy>>

\* ------------------------------------------------------------------------
\* Session pool: the lease
\* ------------------------------------------------------------------------
\* lines 216-224 (pooled lease)
Release(c) ==
  /\ pc[c] = "holding"
  /\ Pooled(c)
  /\ ~released[c]
  /\ released' = [released EXCEPT ![c] = TRUE]
  /\ entries' = IF HasKey(entries, KeyOf(c))
                  THEN [entries EXCEPT ![IndexOfKey(entries, KeyOf(c))].lastUsedAt = now]
                  ELSE entries
  /\ unlocked' = finishLockUnlocked(c)
  /\ locks' = finishLockLocks(c)
  /\ relTime' = [relTime EXCEPT ![c] = now]
  /\ pc' = [pc EXCEPT ![c] = "released"]
  /\ UNCHANGED <<now, req, prev, entryOf, usable, reused, closing, sweepNow,
                 alive, evictedBy>>

\* lines 226-233 (pooled lease), up to `await closeEntry` or, with no entry
\* stored, to the end
Invalidate(c) ==
  /\ pc[c] = "holding"
  /\ Pooled(c)
  /\ ~released[c]
  /\ released' = [released EXCEPT ![c] = TRUE]
  /\ IF HasKey(entries, KeyOf(c))
       THEN LET i == IndexOfKey(entries, KeyOf(c)) IN
            /\ entries' = RemoveAt(entries, i)
            /\ evictedBy' = [evictedBy EXCEPT ![entries[i].sess] = "invalidate"]
            /\ closing' = [closing EXCEPT ![c] = entries[i].sess]
            /\ pc' = [pc EXCEPT ![c] = "invClose"]
            /\ UNCHANGED <<unlocked, locks>>
       ELSE /\ unlocked' = finishLockUnlocked(c)
            /\ locks' = finishLockLocks(c)
            /\ pc' = [pc EXCEPT ![c] = "invalidated"]
            /\ UNCHANGED <<entries, evictedBy, closing>>
  /\ UNCHANGED <<now, req, prev, entryOf, usable, reused, sweepNow, alive,
                 relTime>>

\* bug: a rejected close() is not caught, invalidate throws before finishLock
InvCloseDone_throws(c, ok) ==
  /\ pc[c] = "invClose"
  /\ alive' = CloseOutcome(closing[c], ok)
  /\ closing' = [closing EXCEPT ![c] = 0]
  /\ unlocked' = IF ok THEN finishLockUnlocked(c) ELSE unlocked
  /\ locks' = IF ok THEN finishLockLocks(c) ELSE locks
  /\ pc' = [pc EXCEPT ![c] = "invalidated"]
  /\ UNCHANGED <<now, req, entries, prev, released, entryOf, usable, reused,
                 sweepNow, relTime, evictedBy>>

\* line 232 resumes: closeEntry settled (whatever close() did); line 234
InvCloseDone(c, ok) ==
  /\ pc[c] = "invClose"
  /\ alive' = CloseOutcome(closing[c], ok)
  /\ closing' = [closing EXCEPT ![c] = 0]
  /\ unlocked' = finishLockUnlocked(c)
  /\ locks' = finishLockLocks(c)
  /\ pc' = [pc EXCEPT ![c] = "invalidated"]
  /\ UNCHANGED <<now, req, entries, prev, released, entryOf, usable, reused,
                 sweepNow, relTime, evictedBy>>

\* lines 162-167: release and invalidate of an isolated lease both close it
IsoClose(c) ==
  /\ pc[c] = "holding"
  /\ ~Pooled(c)
  /\ closing' = [closing EXCEPT ![c] = entryOf[c]]
  /\ pc' = [pc EXCEPT ![c] = "isoClose"]
  /\ UNCHANGED <<now, req, entries, locks, prev, unlocked, released, entryOf,
                 usable, reused, sweepNow, alive, relTime, evictedBy>>

IsoCloseDone(c, ok) ==
  /\ pc[c] = "isoClose"
  /\ alive' = CloseOutcome(closing[c], ok)
  /\ closing' = [closing EXCEPT ![c] = 0]
  /\ pc' = [pc EXCEPT ![c] = "closed"]
  /\ UNCHANGED <<now, req, entries, locks, prev, unlocked, released, entryOf,
                 usable, reused, sweepNow, relTime, evictedBy>>

\* line 217 / 227: `if (released) return;`
ReleasedGuard_off(c) == FALSE

ReleasedGuard(c) == released[c]

\* release() is called on a pooled lease that was released or invalidated
\* before: lines 217-223
ReleaseAgain(c) ==
  /\ pc[c] \in {"invClose", "released", "invalidated"}
  /\ extraCalls < MaxExtraCalls
  /\ extraCalls' = extraCalls + 1
  /\ IF ReleasedGuard(c)
       THEN UNCHANGED <<entries, unlocked, locks>>
       ELSE /\ entries' = IF HasKey(entries, KeyOf(c))
                            THEN [entries EXCEPT ![IndexOfKey(entries, KeyOf(c))].lastUsedAt = now]
                            ELSE entries
            /\ unlocked' = finishLockUnlocked(c)
            /\ locks' = finishLockLocks(c)
  /\ UNCHANGED <<now, pc, req, prev, released, entryOf, usable, reused, closing,
                 sweepNow, alive, relTime, evictedBy>>

\* invalidate() is called on such a lease: lines 227-234 (a close it would
\* start is taken to resolve)
InvalidateAgain(c) ==
  /\ pc[c] \in {"invClose", "released", "invalidated"}
  /\ extraCalls < MaxExtraCalls
  /\ extraCalls' = extraCalls + 1
  /\ IF ReleasedGuard(c)
       THEN UNCHANGED <<entries, unlocked, locks, alive, evictedBy>>
       ELSE /\ IF HasKey(entries, KeyOf(c))
                 THEN LET i == IndexOfKey(entries, KeyOf(c)) IN
                      /\ entries' = RemoveAt(entries, i)
                      /\ evictedBy' = [evictedBy EXCEPT ![entries[i].sess] = "invalidate"]
                      /\ alive' = [alive EXCEPT ![entries[i].sess] = FALSE]
                 ELSE UNCHANGED <<entries, evictedBy, alive>>
            /\ unlocked' = finishLockUnlocked(c)
            /\ locks' = finishLockLocks(c)
  /\ UNCHANGED <<now, pc, req, prev, released, entryOf, usable, reused, closing,
                 sweepNow, relTime>>

\* ------------------------------------------------------------------------
\* Session pool: environment
\* ------------------------------------------------------------------------
\* the page of a session stored in the pool is closed from outside (browser
\* crash, window closed)
PageCrash(s) ==
  /\ alive[s]
  /\ \E i \in 1..Len(entries) : entries[i].sess = s
  /\ alive' = [alive EXCEPT ![s] = FALSE]
  /\ UNCHANGED <<now, pc, req, entries, locks, prev, unlocked, released,
                 entryOf, usable, reused, closing, sweepNow, relTime, evictedBy>>

\* the clock advances
Tick ==
  /\ now < MaxTime
  /\ now' = now + 1
  /\ UNCHANGED <<pc, req, entries, locks, prev, unlocked, released, entryOf,
                 usable, reused, closing, sweepNow, alive, relTime, evictedBy>>

\* the steps of pooled acquires made with the requests R, of their leases and
\* of the environment
PooledSteps(R) ==
  \/ \E c \in Calls, r \in R : Call(c, r)
  \/ \E c \in Calls : LockGranted(c)
  \/ \E c \in Calls, ok \in BOOLEAN : SweepCloseDone(c, ok)
  \/ \E c \in Calls : Lookup(c)
  \/ \E c \in Calls : ProbeDone(c)
  \/ \E c \in Calls, ok \in BOOLEAN : StaleCloseDone(c, ok)
  \/ \E c \in Calls : CreateDone(c)
  \/ \E c \in Calls : CreateFailed(c)
  \/ \E c \in Calls : Release(c)
  \/ \E c \in Calls : Invalidate(c)
  \/ \E c \in Calls, ok \in BOOLEAN : InvCloseDone(c, ok)
  \/ \E s \in Calls : PageCrash(s)
  \/ Tick

\* the entry stored under c's key when it is older than the TTL
ExpiredUnderKey(c) ==
  LET i == IndexOfKey(entries, KeyOf(c)) IN
  IF i # 0 /\ now - entries[i].lastUsedAt > PoolTtl THEN entries[i].sess ELSE 0

\* expiredAtGrant is set in the step in which a call gets the mutex (line 180
\* resumes) and cleared in the step in which its acquire ends
GrantHistory ==
  expiredAtGrant' =
    [c \in Calls |->
       IF pc[c] = "waitLock" /\ pc'[c] # "waitLock" THEN ExpiredUnderKey(c)
       ELSE IF pc'[c] \in {"holding", "failed"} THEN 0
       ELSE expiredAtGrant[c]]

\* the agent a1 alone, in its two pooled configurations (headless or not)
OneAgentRequests == { r \in Requests : PoolingAllowed(r) /\ NormalizeAgent(r.agent) = "a1" }

PoolNext ==
  \/ PooledSteps(Requests)
  \/ \E c \in Calls, ok \in BOOLEAN : EvictCloseDone(c, ok)
  \/ \E c \in Calls : IsoCreateDone(c)
  \/ \E c \in Calls : IsoCreateFailed(c)
  \/ \E c \in Calls : IsoClose(c)
  \/ \E c \in Calls, ok \in BOOLEAN : IsoCloseDone(c, ok)

\* ------------------------------------------------------------------------
\* JobManager (src/src/jobs.ts)
\* ------------------------------------------------------------------------
\* options.concurrency, handed to pLimit
Concurrency == 2
\* this.ttlMs, in clock ticks
JobTtl == 1

JobIds == 1..MaxJobs

NoTime == -1

\* result: undefined
NoResult == [kind |-> "undefined"]

NoJob == [status |-> "absent", createdAt |-> NoTime, startedAt |-> NoTime,
          finishedAt |-> NoTime, error |-> "none", artifactPaths |-> <<>>,
          steps |-> <<>>, result |-> NoResult]

\* the JobExecutionResult values an executor returns
ExecutionResults ==
  { [artifactPaths |-> <<"trace.zip">>, steps |-> <<"login", "verify">>,
     result |-> [kind |-> "balance", value |-> 100]],
    [artifactPaths |-> <<>>, steps |-> <<"login">>, result |-> NoResult] }

\* an optional array property of an exception
Attached(list) == [isArray |-> TRUE, value |-> list]
NotAttached == [isArray |-> FALSE, value |-> <<>>]

\* the exceptions an executor throws: the wrapped error of a funds job with its
\* steps and artifact paths, and a plain Error
Exceptions ==
  { [message |-> "Step failed", steps |-> Attached(<<"login">>),
     artifactPaths |-> Attached(<<"error.png">>)],
    [message |-> "Unsupported job type", steps |-> NotAttached,
     artifactPaths |-> NotAttached] }

\* Array.isArray(x) ? [...x] : []
ArrayOrEmpty(x) == IF x.isArray THEN x.value ELSE <<>>

\* cloneJobResult, lines 25-31
cloneJobResult(result) ==
  IF result = NoResult THEN NoResult ELSE [f \in DOMAIN result |-> result[f]]

\* bug: the artifact paths are not taken from the executor's result
SucceededRecord_keepsPaths(current, result, t) ==
  [current EXCEPT !.status = "succeeded", !.finishedAt = t,
                  !.steps = result.steps,
                  !.result = cloneJobResult(result.result)]

\* lines 70-77: the record written when the executor returned
SucceededRecord(current, result, t) ==
  [current EXCEPT !.status = "succeeded", !.finishedAt = t,
                  !.artifactPaths = result.artifactPaths,
                  !.steps = result.steps,
                  !.result = cloneJobResult(result.result)]

\* bug: the steps attached to the exception are dropped
FailedRecord_dropsSteps(current, e, t) ==
  [current EXCEPT !.status = "failed", !.finishedAt = t, !.error = e.message,
                  !.artifactPaths = ArrayOrEmpty(e.artifactPaths),
                  !.steps = <<>>,
                  !.result = NoResult]

\* lines 85-95: the record written when the executor threw
FailedRecord(current, e, t) ==
  [current EXCEPT !.status = "failed", !.finishedAt = t, !.error = e.message,
                  !.artifactPaths = ArrayOrEmpty(e.artifactPaths),
                  !.steps = ArrayOrEmpty(e.steps),
                  !.result = NoResult]

isTerminal(status) == status \in {"succeeded", "failed", "expired"}

\* toMillis(finishedAt) ?? toMillis(startedAt) ?? toMillis(createdAt)
ReferenceMs(entry) ==
  IF entry.finishedAt # NoTime THEN entry.finishedAt
  ELSE IF entry.startedAt # NoTime THEN entry.startedAt
  ELSE entry.createdAt

\* bug: marking a record expired also drops its result and steps
markExpiredIfNeeded_clears(entry, t) ==
  IF ~(entry.status \in {"succeeded", "failed"}) THEN entry
  ELSE IF t - entry.finishedAt > JobTtl
    THEN [entry EXCEPT !.status = "expired", !.result = NoResult, !.steps = <<>>]
  ELSE entry

\* bug: every record past its TTL is marked, terminal or not
markExpiredIfNeeded_any(entry, t) ==
  IF entry.status = "absent" \/ entry.status = "expired" THEN entry
  ELSE IF t - ReferenceMs(entry) > JobTtl THEN [entry EXCEPT !.status = "expired"]
  ELSE entry

markExpiredIfNeeded(entry, t) ==
  IF ~isTerminal(entry.status) \/ entry.status = "expired" THEN entry
  ELSE IF ReferenceMs(entry) = NoTime THEN entry
  ELSE IF t - ReferenceMs(entry) > JobTtl THEN [entry EXCEPT !.status = "expired"]
  ELSE entry

\* bug: the limiter starts the callback queued last
NextAdmitted_lifo(queue) == queue[Len(queue)]

\* the limiter starts the callback queued first
NextAdmitted(queue) == Head(queue)

\* bug: the limiter is built with one slot too many
LimiterConcurrency_offByOne == Concurrency + 1

\* pLimit(options.concurrency)
LimiterConcurrency == Concurrency

\* nothing was returned by getById yet
NoGot == [id |-> 0, at |-> 0, entry |-> NoJob]

JobInit ==
  /\ jobs = [j \in JobIds |-> NoJob]
  /\ limQueue = <<>>
  /\ limActive = {}
  /\ executing = {}
  /\ sweepOn = TRUE
  /\ got = NoGot

\* the limiter starts the callback of job j: lines 60-65, up to the await of
\* the executor
StartCallback(js, j) ==
  [js EXCEPT ![j] = [js[j] EXCEPT !.status = "running", !.startedAt = now]]

\* enqueue(request), lines 50-59 and 101; ids are fresh (randomUUID) and are
\* numbered in arrival order
Enqueue(j) ==
  /\ jobs[j].status = "absent"
  /\ (IF j = 1 THEN TRUE ELSE jobs[j - 1].status # "absent")
  /\ jobs' = [jobs EXCEPT ![j] = [NoJob EXCEPT !.status = "queued", !.createdAt = now]]
  /\ limQueue' = Append(limQueue, j)
  /\ UNCHANGED <<limActive, executing, sweepOn, got>>

\* the limiter admits the oldest queued callback while a slot is free
Admit ==
  /\ limQueue # <<>>
  /\ Cardinality(limActive) < LimiterConcurrency
  /\ jobs' = StartCallback(jobs, NextAdmitted(limQueue))
  /\ limActive' = limActive \cup {NextAdmitted(limQueue)}
  /\ executing' = executing \cup {NextAdmitted(limQueue)}
  /\ limQueue' = SelectSeq(limQueue, LAMBDA x : x # NextAdmitted(limQueue))
  /\ UNCHANGED <<sweepOn, got>>

\* the executor of job j returned: lines 69-77 (the record is overwritten
\* whatever its status is)
ExecutorReturn(j, result) ==
  /\ j \in executing
  /\ jobs' = [jobs EXCEPT ![j] = SucceededRecord(jobs[j], result, now)]
  /\ executing' = executing \ {j}
  /\ UNCHANGED <<limQueue, limActive, sweepOn, got>>

\* the executor of job j threw: lines 79-95
ExecutorThrow(j, e) ==
  /\ j \in executing
  /\ jobs' = [jobs EXCEPT ![j] = FailedRecord(jobs[j], e, now)]
  /\ executing' = executing \ {j}
  /\ UNCHANGED <<limQueue, limActive, sweepOn, got>>

\* bug: the slot of a callback whose executor threw is never given back
SlotFreed_onlyOnSuccess(j) ==
  /\ j \in limActive
  /\ j \notin executing
  /\ jobs[j].status = "succeeded"
  /\ IF limQueue # <<>>
       THEN /\ jobs' = StartCallback(jobs, NextAdmitted(limQueue))
            /\ limActive' = (limActive \ {j}) \cup {NextAdmitted(limQueue)}
            /\ executing' = executing \cup {NextAdmitted(limQueue)}
            /\ limQueue' = SelectSeq(limQueue, LAMBDA x : x # NextAdmitted(limQueue))
       ELSE /\ limActive' = limActive \ {j}
            /\ UNCHANGED <<jobs, limQueue, executing>>
  /\ UNCHANGED <<sweepOn, got>>

\* the callback of job j has settled: the limiter frees its slot and starts
\* the oldest queued callback, if any
SlotFreed(j) ==
  /\ j \in limActive
  /\ j \notin executing
  /\ IF limQueue # <<>>
       THEN /\ jobs' = StartCallback(jobs, NextAdmitted(limQueue))
            /\ limActive' = (limActive \ {j}) \cup {NextAdmitted(limQueue)}
            /\ executing' = executing \cup {NextAdmitted(limQueue)}
            /\ limQueue' = SelectSeq(limQueue, LAMBDA x : x # NextAdmitted(limQueue))
       ELSE /\ limActive' = limActive \ {j}
            /\ UNCHANGED <<jobs, limQueue, executing>>
  /\ UNCHANGED <<sweepOn, got>>

\* bug: the record is returned as it was stored before the expiry check
GetByIdReturn_before(current, maybeExpired) == current

\* lines 112-117: the copy getById returns
GetByIdReturn(current, maybeExpired) ==
  [maybeExpired EXCEPT !.result = cloneJobResult(maybeExpired.result)]

\* getById(id), lines 105-117; the caller keeps the returned copy (keep) or
\* drops it
GetById(j, keep) ==
  /\ jobs[j].status # "absent"
  /\ jobs' = [jobs EXCEPT ![j] = markExpiredIfNeeded(jobs[j], now)]
  /\ got' = IF keep
              THEN [id |-> j, at |-> now,
                    entry |-> GetByIdReturn(jobs[j], markExpiredIfNeeded(jobs[j], now))]
              ELSE got
  /\ UNCHANGED <<limQueue, limActive, executing, sweepOn>>

\* cleanupExpiredJobs(), run by the interval timer
CleanupExpiredJobs ==
  /\ sweepOn
  /\ jobs' = [j \in JobIds |->
                IF jobs[j].status = "absent" THEN jobs[j]
                ELSE markExpiredIfNeeded(jobs[j], now)]
  /\ UNCHANGED <<limQueue, limActive, executing, sweepOn, got>>

\* bug: shutdown also drops the callbacks the limiter has not started
Shutdown_dropsQueue ==
  /\ sweepOn' = FALSE
  /\ limQueue' = <<>>
  /\ UNCHANGED <<jobs, limActive, executing, got>>

\* shutdown(), lines 120-122: clearInterval(cleanupTimer)
Shutdown ==
  /\ sweepOn' = FALSE
  /\ UNCHANGED <<jobs, limQueue, limActive, executing, got>>

\* the jobs in flight at the call of shutdown()
ShutdownHistory ==
  atShutdown' = IF sweepOn /\ ~sweepOn'
                  THEN {j \in JobIds : jobs[j].status \in {"queued", "running"}}
                  ELSE atShutdown

JobTick ==
  /\ now < MaxTime
  /\ now' = now + 1
  /\ UNCHANGED <<jobs, limQueue, limActive, executing, sweepOn, got>>

\* the limiter and the executors of the jobs J, which return one of the
\* results R or throw one of the exceptions E
QueueSteps(J, R, E) ==
  \/ \E j \in J : Enqueue(j)
  \/ Admit
  \/ \E j \in J, result \in R : ExecutorReturn(j, result)
  \/ \E j \in J, e \in E : ExecutorThrow(j, e)
  \/ \E j \in J : SlotFreed(j)

\* executors that return without a result value
PlainResults == { r \in ExecutionResults : r.result = NoResult }

JobSteps ==
  \/ QueueSteps(JobIds, PlainResults, Exceptions)
  \/ \E j \in JobIds : GetById(j, FALSE)
  \/ CleanupExpiredJobs

poolLocals == <<pc, req, entries, locks, prev, unlocked, released, entryOf,
                usable, reused, closing, sweepNow, alive, relTime, evictedBy>>

JobNext ==
  \/ JobSteps /\ UNCHANGED poolVars /\ UNCHANGED leaseVars /\ UNCHANGED fundsVars /\ UNCHANGED auxVars
  \/ JobTick /\ UNCHANGED poolLocals /\ UNCHANGED leaseVars /\ UNCHANGED fundsVars /\ UNCHANGED auxVars

\* ------------------------------------------------------------------------
\* Funds job (src/src/deposit-job.ts): runDepositJob from the row lookup to
\* the verification of the outcome.  Amounts and balances are in thousandths.
\* ------------------------------------------------------------------------
Operations == {"carga", "descarga", "descarga_total"}

NoAmount == -1
\* request.payload.cantidad
Amounts == {5000, 5005}

NoBalance == -1
\* the balance the users list shows for the target user before the operation
InitialBalance == 10000
\* the balances the users list may show afterwards (two decimals)
BalanceReadings == {0, 4990, 5000, 10000, 15000, 15010, 20000}

\* page.url(): the operation page as submitted, another URL under the
\* operation path, a URL outside it
Urls == {"op", "opAlt", "away"}

\* bug: the test for the operation page always passes
IncludesTargetPath_any(url) == TRUE

\* page.url().includes(TARGET_PATH_BY_OPERATION[operation])
IncludesTargetPath(url) == url \in {"op", "opAlt"}

NoSignalReason == "No clear success signal detected"
ErrorTextReason == "error text"

\* bug: any URL change counts as success, also one inside the operation path
waitForDepositResult_anyUrl(errVisible, succVisible, currentUrl, submittedUrl) ==
  IF errVisible THEN [state |-> "error", reason |-> ErrorTextReason, by |-> "text"]
  ELSE IF succVisible THEN [state |-> "success", reason |-> "success text", by |-> "text"]
  ELSE IF currentUrl # submittedUrl
    THEN [state |-> "success", reason |-> "URL changed", by |-> "url"]
  ELSE [state |-> "unknown", reason |-> NoSignalReason, by |-> "timeout"]

\* waitForDepositResult, lines 757-776: what the polls report for a page that
\* shows (errVisible, succVisible, currentUrl) until the timeout
waitForDepositResult(errVisible, succVisible, currentUrl, submittedUrl) ==
  IF errVisible THEN [state |-> "error", reason |-> ErrorTextReason, by |-> "text"]
  ELSE IF succVisible THEN [state |-> "success", reason |-> "success text", by |-> "text"]
  ELSE IF currentUrl # submittedUrl /\ ~IncludesTargetPath(currentUrl)
    THEN [state |-> "success", reason |-> "URL changed", by |-> "url"]
  ELSE [state |-> "unknown", reason |-> NoSignalReason, by |-> "timeout"]

\* verifyDepositResultStep, lines 862-883 (captureOnSuccess is off)
verifyDepositResultStep(outcome) ==
  IF outcome.state = "success"
    THEN [status |-> "ok", error |-> "none"]
    ELSE [status |-> "failed", error |-> outcome.reason]

\* computeExpectedUserBalance, lines 779-807
computeExpectedUserBalance(operation, amount, beforeBalance) ==
  IF beforeBalance = NoBalance THEN NoBalance
  ELSE IF operation = "carga"
    THEN (IF amount = NoAmount THEN NoBalance ELSE beforeBalance + amount)
  ELSE IF operation = "descarga"
    THEN (IF amount = NoAmount THEN NoBalance ELSE beforeBalance - amount)
  ELSE IF operation = "descarga_total" THEN 0
  ELSE NoBalance

Abs(x) == IF x < 0 THEN -x ELSE x

\* bug: a difference of exactly the tolerance is accepted
DeltaAccepted_inclusive(currentBalance, expectedBalance) ==
  Abs(currentBalance - expectedBalance) <= 5

\* line 969: delta < 0.005
DeltaAccepted(currentBalance, expectedBalance) ==
  Abs(currentBalance - expectedBalance) < 5

NoStep == [status |-> "none", error |-> "none"]
NoObs == [err |-> FALSE, succ |-> FALSE, url |-> "op"]
NoOutcome == [state |-> "none", reason |-> "none", by |-> "none"]

\* the message of an Error: its wording, and for `Step failed: <name>
\* (<error>)` the step's name and error
ErrorMessage(text, step, reason) == [text |-> text, step |-> step, reason |-> reason]
NoError == ErrorMessage("none", "none", "none")

\* lines 1062, 1076, ..., 1208: `Step failed: ${step.name} (${step.error})`
StepFailed(name, reason) == ErrorMessage("Step failed", name, reason)

\* getOperationStepNames, lines 74-101
getOperationStepNames(operation) ==
  IF operation = "carga"
    THEN [openAction |-> "04-open-user-deposit", waitOperationPage |-> "05-wait-deposit-page",
          amountAction |-> "06-fill-amount", clickSubmit |-> "07-click-deposit-submit",
          verifyResult |-> "08-verify-deposit-result"]
  ELSE IF operation = "descarga_total"
    THEN [openAction |-> "04-open-user-withdraw", waitOperationPage |-> "05-wait-withdraw-page",
          amountAction |-> "06-click-total-amount", clickSubmit |-> "07-click-withdraw-submit",
          verifyResult |-> "08-verify-withdraw-result"]
  ELSE [openAction |-> "04-open-user-withdraw", waitOperationPage |-> "05-wait-withdraw-page",
        amountAction |-> "06-fill-amount", clickSubmit |-> "07-click-withdraw-submit",
        verifyResult |-> "08-verify-withdraw-result"]

\* the steps of runDepositJob in the order of the source, lines 1028-1229
StepSequence(operation) ==
  <<"00-login", "01-goto-users-all", "02-fill-user-filter", "03-apply-user-filter",
    getOperationStepNames(operation).openAction,
    getOperationStepNames(operation).waitOperationPage,
    getOperationStepNames(operation).amountAction,
    getOperationStepNames(operation).clickSubmit,
    getOperationStepNames(operation).verifyResult,
    "99-final">>

\* the argument of authenticateWithRetry at line 1038
LoginMaxAttempts == 2

\* what ensureAuthenticated does in one attempt: it returns, it throws a
\* message that NON_RETRYABLE_LOGIN_ERROR_REGEX matches, or it throws another
LoginOutcomes == {"ok", "invalid", "other"}

FundsIdle ==
  [pc |-> "idle", op |-> "carga", amount |-> NoAmount, before |-> NoBalance,
   url |-> "away", clicks |-> 0, applied |-> 0, verify |-> NoStep,
   obs |-> NoObs, balRead |-> NoBalance, result |-> "none", error |-> NoError,
   leased |-> FALSE, releases |-> 0, invalidates |-> 0,
   steps |-> <<>>, ran |-> <<>>, auth |-> <<>>, waits |-> <<>>,
   first |-> NoOutcome, second |-> NoOutcome, balanceTried |-> FALSE,
   row |-> "unseen"]

FundsInit == fj = FundsIdle

\* bug: the catch block rethrows without invalidating the lease
FailJob_noInvalidate(rec, msg) ==
  [rec EXCEPT !.pc = "done", !.result = "failed", !.error = msg]

\* the catch block of runDepositJob, lines 1243-1269: the lease is invalidated
\* (line 1264) and the job fails with msg, steps and artifactPaths attached
FailJob(rec, msg) ==
  [rec EXCEPT !.pc = "done", !.result = "failed", !.error = msg,
              !.invalidates = @ + 1]

\* bug: a failed step is thrown before it is pushed to the step list
RecordStep_okOnly(rec, name, step) ==
  IF step.status = "failed" THEN rec
  ELSE [rec EXCEPT !.steps = Append(@, [name |-> name, status |-> step.status,
                                        error |-> step.error])]

\* steps.push(step), lines 1059, 1073, ..., 1205
RecordStep(rec, name, step) ==
  [rec EXCEPT !.steps = Append(@, [name |-> name, status |-> step.status,
                                   error |-> step.error])]

\* the action of step `name` is started
Started(rec, name) == [rec EXCEPT !.ran = Append(@, name)]

\* lines 1052-1063 and alike: the step returned by executeActionStep is
\* pushed, and a failed one is thrown as `Step failed`
AfterStep(rec, name, step, nextPc) ==
  IF step.status = "failed"
    THEN FailJob(RecordStep(rec, name, step), StepFailed(name, step.error))
    ELSE [RecordStep(rec, name, step) EXCEPT !.pc = nextPc]

\* executeActionStep, lines 558-586 (captureOnSuccess is off): ok, or failed
\* with the message of what the action threw
executeActionStep(ok, message) ==
  IF ok THEN [status |-> "ok", error |-> "none"]
  ELSE [status |-> "failed", error |-> message]

\* what runDepositJob does with the step returned by
\* verifyWithRetryAndBalanceFallback, lines 1203-1209
AfterVerify(rec, step) ==
  AfterStep([rec EXCEPT !.verify = step], getOperationStepNames(rec.op).verifyResult,
            step, "final")

\* lines 955-957: without an expected balance the verify step stands
BalanceGate(rec, step) ==
  IF computeExpectedUserBalance(rec.op, rec.amount, rec.before) = NoBalance
    THEN AfterVerify(rec, step)
    ELSE [rec EXCEPT !.verify = step, !.pc = "balance"]

\* runDepositJob is called for an operation and an amount
StartFunds(op, amt) ==
  /\ fj.pc = "idle"
  /\ fj' = [fj EXCEPT !.pc = "acquire", !.op = op, !.amount = amt]

\* line 1006, before the try block: the lease is returned, or
\* acquireFundsSessionLease throws and so does runDepositJob
AcquireLease(ok) ==
  /\ fj.pc = "acquire"
  /\ fj' = IF ok
             THEN [fj EXCEPT !.pc = "login", !.leased = TRUE]
             ELSE [fj EXCEPT !.pc = "done", !.result = "failed",
                             !.error = ErrorMessage("acquire failed", "none", "none")]

\* bug: a failure that names invalid credentials is retried like any other
authenticateWithRetry_retryAll(attempt, maxAttempts, outcome) ==
  IF outcome = "ok" THEN "return"
  ELSE IF attempt >= maxAttempts THEN "throw"
  ELSE "wait"

\* one round of the loop of authenticateWithRetry, lines 598-621
authenticateWithRetry(attempt, maxAttempts, outcome) ==
  IF outcome = "ok" THEN "return"
  ELSE IF outcome = "invalid" THEN "throw"
  ELSE IF attempt >= maxAttempts THEN "throw"
  ELSE "wait"

\* lines 1028-1050: one attempt of the login; the step 00-login is pushed when
\* authenticateWithRetry returns
LoginAttempt(outcome) ==
  /\ fj.pc = "login"
  /\ LET rec == [fj EXCEPT !.auth = Append(@, outcome),
                           !.ran = IF fj.auth = <<>> THEN Append(@, "00-login") ELSE @]
         next == authenticateWithRetry(Len(rec.auth), LoginMaxAttempts, outcome)
     IN fj' = IF next = "return"
                THEN [RecordStep(rec, "00-login", [status |-> "ok", error |-> "none"])
                        EXCEPT !.pc = "goto"]
              ELSE IF next = "throw"
                THEN FailJob(rec, ErrorMessage("login failed", "none", outcome))
              ELSE [rec EXCEPT !.pc = "loginWait"]

\* line 620: page.waitForTimeout(1500) before the next attempt; it rejects
\* when the page is closed, and the rejection leaves authenticateWithRetry
LoginWait(ok) ==
  /\ fj.pc = "loginWait"
  /\ fj' = IF ok
             THEN [fj EXCEPT !.pc = "login", !.waits = Append(@, "ok")]
             ELSE FailJob([fj EXCEPT !.waits = Append(@, "threw")],
                          ErrorMessage("page closed", "none", "none"))

\* the pc of the steps 01, 02, 03 and 05 with their names and successors
PlainSteps(operation) ==
  { [pc |-> "goto", name |-> "01-goto-users-all", next |-> "fill"],
    [pc |-> "fill", name |-> "02-fill-user-filter", next |-> "apply"],
    [pc |-> "apply", name |-> "03-apply-user-filter", next |-> "open"],
    [pc |-> "wait", name |-> getOperationStepNames(operation).waitOperationPage,
     next |-> "amount"] }

\* steps 01-03 and 05, lines 1052-1099 and 1132-1150: users list, filter,
\* operation page ready; each may fail
PlainStep(ok) ==
  \E s \in PlainSteps(fj.op) :
    /\ fj.pc = s.pc
    /\ fj' = AfterStep(Started(fj, s.name), s.name,
                       executeActionStep(ok, "timeout"), s.next)

NoBalanceInRow == "Could not extract user balance from users row"

\* what the action of step 04 meets: no unique row of the user (line 1102
\* throws), a row whose text shows no balance (line 1104 throws, see
\* extractUserListBalanceFromRowText, 161-168), a row with a balance whose
\* operation page does not open (lines 1105-1122 throw), or none of these
OpenOutcomes == {"no unique row", NoBalanceInRow, "operation page not opened", "ok"}

\* step 04, lines 1101-1130: row lookup with the balance snapshot, operation
\* page opened
OpenStep(outcome) ==
  /\ fj.pc = "open"
  /\ LET name == getOperationStepNames(fj.op).openAction
         rec == IF outcome = "no unique row" THEN fj
                ELSE IF outcome = NoBalanceInRow THEN [fj EXCEPT !.row = "noBalance"]
                ELSE IF outcome = "operation page not opened"
                  THEN [fj EXCEPT !.row = "balance", !.before = InitialBalance]
                ELSE [fj EXCEPT !.row = "balance", !.before = InitialBalance, !.url = "op"]
     IN fj' = AfterStep(Started(rec, name), name,
                        executeActionStep(outcome = "ok", outcome), "wait")

\* step 06, lines 1152-1173
AmountStep(ok) ==
  /\ fj.pc = "amount"
  /\ LET name == getOperationStepNames(fj.op).amountAction
         step == IF fj.op # "descarga_total" /\ fj.amount = NoAmount
                   THEN executeActionStep(FALSE, "cantidad is required")
                   ELSE executeActionStep(ok, "timeout")
     IN fj' = AfterStep(Started(fj, name), name, step, "submit")

\* step 07, lines 1175-1186: the submit button is clicked, or the step fails
\* without a click; the console applies a clicked transaction or not
SubmitStep(clicked, applies) ==
  /\ fj.pc = "submit"
  /\ LET name == getOperationStepNames(fj.op).clickSubmit
         rec == IF clicked
                  THEN [fj EXCEPT !.clicks = @ + 1,
                                  !.applied = IF applies THEN @ + 1 ELSE @]
                  ELSE fj
     IN fj' = AfterStep(Started(rec, name), name,
                        executeActionStep(clicked, "submit not found"), "verify1")

\* lines 912-929: the first verification, on the page as the console shows it
\* during the polling window, and page.url() as line 928 reads it after the
\* last poll's pause
Verify1(errVisible, succVisible, url, urlAfter) ==
  /\ fj.pc = "verify1"
  /\ LET outcome == waitForDepositResult(errVisible, succVisible, url, "op")
         step == verifyDepositResultStep(outcome)
         rec == [Started(fj, getOperationStepNames(fj.op).verifyResult)
                   EXCEPT !.url = urlAfter, !.first = outcome,
                          !.obs = [err |-> errVisible, succ |-> succVisible, url |-> url]]
         isNoSignal == step.status = "failed" /\ step.error = NoSignalReason
     IN /\ outcome.state # "unknown" => urlAfter = url
        /\ fj' = IF ~isNoSignal THEN AfterVerify(rec, step)
              ELSE IF IncludesTargetPath(urlAfter)
                THEN [rec EXCEPT !.verify = step, !.pc = "resubmit"]
              ELSE BalanceGate(rec, step)

\* lines 930-932 and 950-952: the submit button is found and clicked again, or
\* finding or clicking it throws and the balance fallback follows
Resubmit(clicked, applies) ==
  /\ fj.pc = "resubmit"
  /\ fj' = IF clicked
             THEN [fj EXCEPT !.pc = "verify2", !.clicks = @ + 1,
                             !.applied = IF applies THEN @ + 1 ELSE @]
             ELSE BalanceGate(fj, fj.verify)

\* lines 933-949: the verification after the second click
Verify2(errVisible, succVisible, url) ==
  /\ fj.pc = "verify2"
  /\ LET outcome == waitForDepositResult(errVisible, succVisible, url, fj.url)
         step == verifyDepositResultStep(outcome)
         rec == [fj EXCEPT !.url = url, !.second = outcome,
                           !.obs = [err |-> errVisible, succ |-> succVisible, url |-> url]]
     IN fj' = IF step.status = "ok" THEN AfterVerify(rec, step)
              ELSE BalanceGate(rec, step)

\* lines 959-982: the balance is read again from the users list and compared
BalanceCheck(readOk, shown) ==
  /\ fj.pc = "balance"
  /\ LET expected == computeExpectedUserBalance(fj.op, fj.amount, fj.before)
         rec == [fj EXCEPT !.url = "away", !.balanceTried = TRUE,
                           !.balRead = IF readOk THEN shown ELSE NoBalance]
     IN fj' = IF readOk /\ DeltaAccepted(shown, expected)
                THEN AfterVerify(rec, [status |-> "ok", error |-> "none"])
                ELSE AfterVerify(rec, fj.verify)

\* lines 1211-1242: final step pushed, trace, lease released (line 1237),
\* result returned; a throw before the release fails the job
FinalStep(ok) ==
  /\ fj.pc = "final"
  /\ LET rec == RecordStep(Started(fj, "99-final"), "99-final",
                           [status |-> "ok", error |-> "none"])
     IN fj' = IF ok THEN [rec EXCEPT !.pc = "done", !.result = "succeeded",
                                     !.releases = @ + 1]
              ELSE FailJob(rec, ErrorMessage("trace not saved", "none", "none"))

FundsSteps ==
  \/ \E op \in Operations, amt \in Amounts \cup {NoAmount} : StartFunds(op, amt)
  \/ \E ok \in BOOLEAN : AcquireLease(ok)
  \/ \E outcome \in LoginOutcomes : LoginAttempt(outcome)
  \/ \E ok \in BOOLEAN : LoginWait(ok)
  \/ \E ok \in BOOLEAN : PlainStep(ok)
  \/ \E outcome \in OpenOutcomes : OpenStep(outcome)
  \/ \E ok \in BOOLEAN : AmountStep(ok)
  \/ \E clicked \in BOOLEAN, applies \in BOOLEAN : SubmitStep(clicked, applies)
  \/ \E e \in BOOLEAN, u \in BOOLEAN, url \in Urls, urlAfter \in Urls : Verify1(e, u, url, urlAfter)
  \/ \E clicked \in BOOLEAN, applies \in BOOLEAN : Resubmit(clicked, applies)
  \/ \E e \in BOOLEAN, u \in BOOLEAN, url \in Urls : Verify2(e, u, url)
  \/ \E readOk \in BOOLEAN, shown \in BalanceReadings : BalanceCheck(readOk, shown)
  \/ \E ok \in BOOLEAN : FinalStep(ok)

FundsNext ==
  FundsSteps /\ UNCHANGED poolVars /\ UNCHANGED leaseVars /\ UNCHANGED jobVars /\ UNCHANGED auxVars

\* ------------------------------------------------------------------------
\* getById at the level of object identities (src/src/jobs.ts 67-77,
\* 104-118, 131-146): which objects the stored entry is made of, which
\* objects getById hands out, and what a caller's writes can reach.
\* An object is its primitive fields (prims) and its references to other
\* objects (refs); object 0 is `undefined`.
MaxObjects == 6 + (MaxGets * 6)

ObjectIds == 1..MaxObjects

Obj(kind, prims, refs) == [kind |-> kind, prims |-> prims, refs |-> refs]

NoObject == Obj("free", <<>>, <<>>)

\* the value an object denotes: its fields with every reference followed
RECURSIVE Deep(_, _)
Deep(h, o) ==
  IF o = 0 THEN Obj("undefined", <<>>, <<>>)
  ELSE Obj(h[o].kind, h[o].prims,
           [i \in 1..Len(h[o].refs) |-> Deep(h, h[o].refs[i])])

\* the objects reachable from o
RECURSIVE Reach(_, _)
Reach(h, o) ==
  IF o = 0 THEN {}
  ELSE {o} \cup UNION {Reach(h, h[o].refs[i]) : i \in 1..Len(h[o].refs)}

CopyInit ==
  cp = [heap |-> [o \in ObjectIds |-> NoObject], top |-> 0, store |-> 0,
        orig |-> NoObject, held |-> {}, last |-> 0, fresh |-> FALSE, gets |-> 0]

\* the executor's return value and the entry written on success: the entry
\* keeps the executor's artifactPaths and steps arrays and a clone of its
\* result
StoreSucceeded(withResult) ==
  /\ cp.store = 0
  /\ LET paths == 1
         steps == 2
         step == 3
         execResult == IF withResult THEN 4 ELSE 0
         result == IF withResult THEN 5 ELSE 0
         entry == 6
         h == [o \in ObjectIds |->
                 IF o = paths THEN Obj("array", <<"trace.zip">>, <<>>)
                 ELSE IF o = steps THEN Obj("array", <<>>, <<step>>)
                 ELSE IF o = step THEN Obj("step", <<"login", "ok">>, <<>>)
                 ELSE IF o = execResult THEN Obj("result", <<"balance", "100">>, <<>>)
                 ELSE IF o = result THEN Obj("result", <<"balance", "100">>, <<>>)
                 ELSE IF o = entry THEN Obj("entry", <<"succeeded">>, <<paths, steps, result>>)
                 ELSE NoObject]
     IN cp' = [cp EXCEPT !.heap = h, !.top = entry, !.store = entry,
                         !.orig = Deep(h, entry)]

\* artifactPaths of the returned record: a new array
ReturnedPaths_shared(stored, copy) == stored

ReturnedPaths(stored, copy) == copy

\* getById: due is the outcome of the TTL comparison of markExpiredIfNeeded
GetByIdCopy(due) ==
  /\ cp.store # 0
  /\ cp.gets < MaxGets
  /\ LET h0 == cp.heap
         current == cp.store
         expires == due /\ h0[current].prims # <<"expired">>
         maybeExpired == IF expires THEN cp.top + 1 ELSE current
         h1 == IF expires
               THEN [h0 EXCEPT ![maybeExpired] = Obj("entry", <<"expired">>, h0[current].refs)]
               ELSE h0
         base == IF expires THEN cp.top + 1 ELSE cp.top
         r == h1[maybeExpired].refs
         n == Len(h1[r[2]].refs)
         ret == base + 1
         paths == base + 2
         steps == base + 3
         stepAt(i) == base + 3 + i
         result == IF r[3] = 0 THEN 0 ELSE base + 4 + n
         h2 == [o \in ObjectIds |->
                  IF o = ret
                    THEN Obj("entry", h1[maybeExpired].prims,
                             <<ReturnedPaths(r[1], paths), steps, result>>)
                  ELSE IF o = paths THEN Obj("array", h1[r[1]].prims, h1[r[1]].refs)
                  ELSE IF o = steps THEN Obj("array", <<>>, [i \in 1..n |-> stepAt(i)])
                  ELSE IF o \in {stepAt(i) : i \in 1..n}
                    THEN h1[h1[r[2]].refs[o - (base + 3)]]
                  ELSE IF o = result THEN h1[r[3]]
                  ELSE h1[o]]
     IN cp' = [cp EXCEPT !.heap = h2, !.top = base + 4 + n, !.store = maybeExpired,
                         !.held = @ \cup Reach(h2, ret), !.last = ret,
                         !.fresh = TRUE, !.gets = @ + 1]

\* a caller writes to an object it got from getById: it overwrites the
\* object's fields and empties it
CallerMutates(o) ==
  /\ o \in cp.held
  /\ cp.heap[o].prims # <<"mutated">>
  /\ cp' = [cp EXCEPT !.heap[o] = Obj(@.kind, <<"mutated">>, <<>>), !.fresh = FALSE]

CopySteps ==
  \/ \E withResult \in BOOLEAN : StoreSucceeded(withResult)
  \/ \E due \in BOOLEAN : GetByIdCopy(due)
  \/ \E o \in ObjectIds : CallerMutates(o)

CopyNext ==
  /\ CopySteps
  /\ UNCHANGED poolVars /\ UNCHANGED leaseVars /\ UNCHANGED jobVars /\ UNCHANGED fundsVars
  /\ UNCHANGED atShutdown /\ UNCHANGED pureVars

\* ------------------------------------------------------------------------
\* Row matching (src/src/deposit-match.ts).  A string is the sequence of its
\* characters.
\* ------------------------------------------------------------------------
\* the strings over the characters A of at most n characters
StringsUpTo(A, n) == UNION {[1..k -> A] : k \in 0..n}

\* the characters of the values matched: a letter in both cases, the letter
\* with an acute accent (one precomposed character), underscore, a digit, a
\* blank and a hyphen
UserChars == {"a", "A", "a-acute", "_", "2", " ", "-"}

\* String.prototype.normalize('NFKD') on one character: the accented letter
\* becomes its base letter followed by the combining mark
NFKD(c) == IF c = "a-acute" THEN <<"a", "acute">> ELSE <<c>>

\* the class [\u0300-\u036f] of the combining marks
IsCombiningMark(c) == c = "acute"

\* toLowerCase on one character
LowerOf(c) == IF c = "A" THEN "a" ELSE c

\* \s
IsSpace(c) == c = " "

RECURSIVE Decompose(_)
Decompose(s) == IF s = <<>> THEN <<>> ELSE NFKD(Head(s)) \o Decompose(Tail(s))

RECURSIVE DropSpaces(_)
DropSpaces(s) ==
  IF s # <<>> /\ IsSpace(Head(s)) THEN DropSpaces(Tail(s)) ELSE s

\* replace(/\s+/g, ' ')
RECURSIVE CollapseSpaces(_)
CollapseSpaces(s) ==
  IF s = <<>> THEN <<>>
  ELSE IF IsSpace(Head(s)) THEN <<" ">> \o CollapseSpaces(DropSpaces(s))
  ELSE <<Head(s)>> \o CollapseSpaces(Tail(s))

Reverse(s) == [i \in 1..Len(s) |-> s[Len(s) + 1 - i]]

\* trim()
Trim(s) == Reverse(DropSpaces(Reverse(DropSpaces(s))))

\* normalizeDepositText, lines 12-19
normalizeDepositText(input) ==
  LET stripped == SelectSeq(Decompose(input), LAMBDA c : ~IsCombiningMark(c))
      lowered == [i \in 1..Len(stripped) |-> LowerOf(stripped[i])]
  IN Trim(CollapseSpaces(lowered))

\* the class [a-z0-9_] of the pattern, under the flag i
PatternWordChars == {"a", "A", "2", "_"}

\* bug: the pattern is the escaped username alone, without the two groups
\* around it
PatternTest_substring(text, word) ==
  \E i \in 1..(Len(text) - Len(word) + 1) : SubSeq(text, i, i + Len(word) - 1) = word

\* line 28-29: RegExp `(^|[^a-z0-9_])<escaped word>([^a-z0-9_]|$)`, flag i,
\* tested on text: the word is matched literally at some position i, after
\* the start of the text or a character outside the class, and before a
\* character outside the class or the end of the text
PatternTest(text, word) ==
  \E i \in 1..(Len(text) - Len(word) + 1) :
    /\ SubSeq(text, i, i + Len(word) - 1) = word
    /\ (i = 1 \/ text[i - 1] \notin PatternWordChars)
    /\ (i + Len(word) - 1 = Len(text) \/ text[i + Len(word)] \notin PatternWordChars)

\* hasExactUsernameMatch, lines 21-30
hasExactUsernameMatch(value, username) ==
  LET normalizedValue == normalizeDepositText(value)
      normalizedUsername == normalizeDepositText(username)
  IN IF normalizedValue = <<>> \/ normalizedUsername = <<>> THEN FALSE
     ELSE PatternTest(normalizedValue, normalizedUsername)

\* what selectDepositRowIndex returns or throws
Returned(index) == [kind |-> "index", index |-> index]
Thrown(kind) == [kind |-> kind, index |-> -1]
NoSelection == [kind |-> "none", index |-> -1]

\* candidate.usernames.some(...) || hasExactUsernameMatch(normalizedText, ...)
IsExactCandidate(candidate, username) ==
  \/ \E i \in 1..Len(candidate.usernames) :
       hasExactUsernameMatch(candidate.usernames[i], username)
  \/ hasExactUsernameMatch(candidate.normalizedText, username)

\* bug: with several exact rows the first one is taken
selectDepositRowIndex_first(candidates, username) ==
  LET actionable == SelectSeq(candidates, LAMBDA c : c.hasAction)
      exact == SelectSeq(actionable, LAMBDA c : IsExactCandidate(c, username))
  IN IF Len(actionable) = 0 THEN Thrown("No actionable rows")
     ELSE IF Len(exact) >= 1 THEN Returned(exact[1].index)
     ELSE Thrown("No exact unique match")

\* selectDepositRowIndex, lines 32-55
selectDepositRowIndex(candidates, username) ==
  LET actionable == SelectSeq(candidates, LAMBDA c : c.hasAction)
      exact == SelectSeq(actionable, LAMBDA c : IsExactCandidate(c, username))
  IN IF Len(actionable) = 0 THEN Thrown("No actionable rows")
     ELSE IF Len(exact) = 1 THEN Returned(exact[1].index)
     ELSE IF Len(exact) > 1 THEN Thrown("Multiple exact matches")
     ELSE Thrown("No exact unique match")

\* --- hasExactUsernameMatch on every value of at most MaxValueLen characters
\* the usernames looked for
Usernames ==
  { <<"a">>, <<"a", "2">>, <<"A">>, <<"a-acute">>, <<"a", " ", "a">>, <<" ", "a">>,
    <<"a", "-">>, <<"_">>, <<" ">>, <<>> }

UsernameInputs ==
  [value : StringsUpTo(UserChars, MaxValueLen), username : Usernames,
   results : {<<>>}, selected : {NoSelection}]

\* hasExactUsernameMatch(value, username) is called, a first or a second time
CallHasExactUsernameMatch ==
  /\ Len(um.results) < 2
  /\ um' = [um EXCEPT !.results = Append(@, hasExactUsernameMatch(um.value, um.username))]

\* selectDepositRowIndex is called on the one actionable row whose username
\* and text are the value
SelectTheRow ==
  /\ um.selected = NoSelection
  /\ um' = [um EXCEPT !.selected =
              selectDepositRowIndex(<<[index |-> 0, hasAction |-> TRUE,
                                       usernames |-> <<um.value>>,
                                       normalizedText |-> um.value]>>,
                                    um.username)]

UsernameSteps == CallHasExactUsernameMatch \/ SelectTheRow

\* --- selectDepositRowIndex on every list of at most MaxRows candidates
Name == <<"a">>
LongerName == <<"a", "_", "2">>
OtherName == <<"2">>
NameInText == <<"a", " ", "-">>
OtherText == <<"2", " ", "-">>

\* candidates without their index field
RowShapes ==
  [hasAction : BOOLEAN, usernames : {<<Name>>, <<LongerName>>, <<OtherName>>},
   normalizedText : {NameInText, OtherText}]

\* the index field of the candidate at position i of the list drawn: 4, 0, 1, ...
IndexField(i) == IF i = 1 THEN 4 ELSE i - 2

WithIndex(shapes) ==
  [i \in 1..Len(shapes) |->
     [index |-> IndexField(i), hasAction |-> shapes[i].hasAction,
      usernames |-> shapes[i].usernames, normalizedText |-> shapes[i].normalizedText]]

RowInputs ==
  [candidates : {WithIndex(shapes) : shapes \in StringsUpTo(RowShapes, MaxRows)},
   username : {<<"a">>, <<" ", "A">>},
   results : {<<>>}]

\* the orderings of a list of n candidates
Orderings(n) == {p \in [1..n -> 1..n] : \A i \in 1..n : \E k \in 1..n : p[k] = i}

Reordered(list, p) == [i \in 1..Len(list) |-> list[p[i]]]

\* selectDepositRowIndex is called on the candidates in the ordering p
SelectReordered(p) ==
  /\ Len(rs.results) < 2
  /\ rs' = [rs EXCEPT !.results =
              Append(@, [order |-> p,
                         result |-> selectDepositRowIndex(Reordered(rs.candidates, p),
                                                          rs.username)])]

RowSteps == \E p \in Orderings(Len(rs.candidates)) : SelectReordered(p)

\* ------------------------------------------------------------------------
\* Money parsing: parseLocalizedMoney (src/src/deposit-job.ts 128-159) and
\* parseBalanceNumber (src/src/balance-job.ts 39-79)
\* ------------------------------------------------------------------------
DigitChars == {"0", "1", "2", "3", "4", "5", "6"}

DigitValue(c) ==
  CASE c = "0" -> 0 [] c = "1" -> 1 [] c = "2" -> 2 [] c = "3" -> 3
    [] c = "4" -> 4 [] c = "5" -> 5 [] c = "6" -> 6

\* the characters of the inputs enumerated: two digits, the two separators,
\* the sign, a letter and a blank
MoneyChars == {"0", "1", ",", ".", "-", "x", " "}

\* a JavaScript number: sign, integer part and the digits of the fraction
\* without trailing zeros; NaN
Num(neg, int, frac) == [kind |-> "number", neg |-> neg, int |-> int, frac |-> frac]
NaN == [kind |-> "NaN", neg |-> FALSE, int |-> 0, frac |-> <<>>]
ParseError == [kind |-> "throw", neg |-> FALSE, int |-> 0, frac |-> <<>>]
NoParse == [kind |-> "none", neg |-> FALSE, int |-> 0, frac |-> <<>>]

RECURSIVE IntOf(_)
IntOf(digits) ==
  IF digits = <<>> THEN 0
  ELSE IntOf(SubSeq(digits, 1, Len(digits) - 1)) * 10 + DigitValue(digits[Len(digits)])

RECURSIVE StripTrailingZeros(_)
StripTrailingZeros(digits) ==
  IF digits # <<>> /\ digits[Len(digits)] = "0"
    THEN StripTrailingZeros(SubSeq(digits, 1, Len(digits) - 1))
    ELSE digits

Without(s, c) == SelectSeq(s, LAMBDA x : x # c)
Includes(s, c) == \E i \in 1..Len(s) : s[i] = c

\* lastIndexOf, from 1; 0 when absent
LastIndexOf(s, c) ==
  IF Includes(s, c) THEN CHOOSE i \in 1..Len(s) : s[i] = c /\ \A k \in (i + 1)..Len(s) : s[k] # c
  ELSE 0

\* replace(/,/g, '.')
CommasToDots(s) == [i \in 1..Len(s) |-> IF s[i] = "," THEN "." ELSE s[i]]

\* Number(text) for a text of an optional leading '-', digits and dots with at
\* least one digit: NaN with more than one dot
Number(text) ==
  LET neg == text # <<>> /\ Head(text) = "-"
      body == IF neg THEN Tail(text) ELSE text
      dot == LastIndexOf(body, ".")
  IN IF Len(body) - Len(Without(body, ".")) > 1 THEN NaN
     ELSE IF dot = 0 THEN Num(neg, IntOf(body), <<>>)
     ELSE Num(neg, IntOf(SubSeq(body, 1, dot - 1)),
              StripTrailingZeros(SubSeq(body, dot + 1, Len(body))))

\* rawValue.trim().replace(/\s+/g, '').replace(/[^0-9,.-]/g, '')
Compact(rawValue) ==
  SelectSeq(rawValue, LAMBDA c : c \in DigitChars \cup {",", ".", "-"})

\* the branch `unsigned.includes(',') && unsigned.includes('.')`
BothSeparators(unsigned) ==
  IF LastIndexOf(unsigned, ",") > LastIndexOf(unsigned, ".")
    THEN CommasToDots(Without(unsigned, "."))
    ELSE Without(unsigned, ",")

\* the branch `unsigned.includes(',')`: split(','), pop, join
CommaOnly(unsigned) ==
  LET last == LastIndexOf(unsigned, ",")
      decimalPart == SubSeq(unsigned, last + 1, Len(unsigned))
      joined == Without(SubSeq(unsigned, 1, last - 1), ",")
      integerPart == IF joined = <<>> THEN <<"0">> ELSE joined
  IN integerPart \o <<".">> \o decimalPart

\* the branch `unsigned.includes('.')` of parseBalanceNumber, lines 58-67
DotOnly(unsigned) ==
  LET last == LastIndexOf(unsigned, ".")
      parts == (Len(unsigned) - Len(Without(unsigned, "."))) + 1
      decimalCandidate == SubSeq(unsigned, last + 1, Len(unsigned))
      before == Without(SubSeq(unsigned, 1, last - 1), ".")
  IN IF parts = 2 /\ Len(decimalCandidate) <= 2 THEN unsigned
     ELSE IF Len(decimalCandidate) <= 2 /\ parts > 2
       THEN before \o <<".">> \o decimalCandidate
     ELSE Without(unsigned, ".")

\* the end of both parsers: Number(sign + normalized), not finite throws
Finish(compact, normalized) ==
  LET sign == IF compact # <<>> /\ Head(compact) = "-" THEN <<"-">> ELSE <<>>
      parsed == Number(sign \o normalized)
  IN IF parsed = NaN THEN ParseError ELSE parsed

\* parseLocalizedMoney, deposit-job.ts lines 128-159
parseLocalizedMoney(rawValue) ==
  LET compact == Compact(rawValue)
      unsigned == Without(compact, "-")
  IN IF ~\E i \in 1..Len(compact) : compact[i] \in DigitChars THEN ParseError
     ELSE IF Includes(unsigned, ",") /\ Includes(unsigned, ".")
       THEN Finish(compact, BothSeparators(unsigned))
     ELSE IF Includes(unsigned, ",") THEN Finish(compact, CommaOnly(unsigned))
     ELSE Finish(compact, unsigned)

\* parseBalanceNumber, balance-job.ts lines 39-79
parseBalanceNumber(rawValue) ==
  LET compact == Compact(rawValue)
      unsigned == Without(compact, "-")
  IN IF ~\E i \in 1..Len(compact) : compact[i] \in DigitChars THEN ParseError
     ELSE IF Includes(unsigned, ",") /\ Includes(unsigned, ".")
       THEN Finish(compact, BothSeparators(unsigned))
     ELSE IF Includes(unsigned, ",") THEN Finish(compact, CommaOnly(unsigned))
     ELSE IF Includes(unsigned, ".") THEN Finish(compact, DotOnly(unsigned))
     ELSE Finish(compact, unsigned)

\* the inputs of the tests (balance-parse.test.ts 5-19) and further ones
ExampleInputs ==
  { <<"1", ".", "2", "3", "4", ",", "5", "6">>,
    <<"1", "2", ".", "3", "4", "5">>,
    <<"0", ",", "0", "0">>,
    <<"x", "x", " ", "x">>,
    <<"1", ",", "2", "3", "4", ".", "5", "6">>,
    <<"-", "1", ".", "2", "3", "4", ",", "5", "0">> }

MoneyInputs ==
  [input : StringsUpTo(MoneyChars, MaxMoneyLen) \cup ExampleInputs,
   called : {"none"}, result : {NoParse}]

CallParseLocalizedMoney ==
  /\ mp.called = "none"
  /\ mp' = [mp EXCEPT !.called = "parseLocalizedMoney",
                      !.result = parseLocalizedMoney(mp.input)]

CallParseBalanceNumber ==
  /\ mp.called = "none"
  /\ mp' = [mp EXCEPT !.called = "parseBalanceNumber",
                      !.result = parseBalanceNumber(mp.input)]

MoneySteps == CallParseLocalizedMoney \/ CallParseBalanceNumber

\* ------------------------------------------------------------------------
\* waitForDepositResult poll by poll (src/src/deposit-job.ts 745-777), on a
\* page that changes while the function is suspended, and the step
\* verifyDepositResultStep makes of it (850-893)
\* ------------------------------------------------------------------------
ErrorDetectedReason == "Error message detected"
SuccessDetectedReason == "Success message detected"

\* what the page shows: a recognized error text, the success text, its URL
Pages == [err : BOOLEAN, succ : BOOLEAN, url : Urls]

WaitIdle ==
  [pc |-> "idle", page |-> NoObs, polls |-> 0, atErr |-> NoObs, atSucc |-> NoObs,
   timedOut |-> FALSE, outcome |-> NoOutcome, step |-> NoStep]

\* `return { state, reason }` of waitForDepositResult and lines 862-883 of
\* verifyDepositResultStep
ReturnOutcome(rec, outcome) ==
  [rec EXCEPT !.pc = "returned", !.outcome = outcome,
              !.step = verifyDepositResultStep(outcome)]

\* the page changes while the function awaits
PageChanges(p) ==
  /\ wp.pc \in {"errVisible", "errText", "succVisible", "succText", "sleep"}
  /\ p # wp.page
  /\ wp' = [wp EXCEPT !.page = p]

\* lines 751-758: the call on the page submitted at URL "op", up to the first
\* `await errorMessage.isVisible()`
StartWait(p) ==
  /\ wp.pc = "idle"
  /\ wp' = [wp EXCEPT !.pc = "errVisible", !.page = p]

\* bug: the success text is looked at first
ErrVisibleDone_successFirst ==
  /\ wp.pc = "errVisible"
  /\ wp' = IF wp.page.succ THEN [wp EXCEPT !.pc = "succText", !.atErr = wp.page,
                                           !.atSucc = wp.page]
           ELSE IF wp.page.err THEN [wp EXCEPT !.pc = "errText", !.atErr = wp.page]
           ELSE [wp EXCEPT !.pc = "succVisible", !.atErr = wp.page]

\* line 758 resumes: the error text is visible (then its innerText is
\* awaited) or not (then the success text's isVisible is awaited)
ErrVisibleDone ==
  /\ wp.pc = "errVisible"
  /\ wp' = [wp EXCEPT !.pc = IF wp.page.err THEN "errText" ELSE "succVisible",
                      !.atErr = wp.page]

\* line 759 resumes with the text, or with '' when it is gone: line 760
ErrTextDone ==
  /\ wp.pc = "errText"
  /\ wp' = ReturnOutcome(wp, [state |-> "error",
                              reason |-> IF wp.page.err THEN ErrorTextReason
                                         ELSE ErrorDetectedReason,
                              by |-> "text"])

\* line 763 resumes: with the success text visible its innerText is awaited;
\* otherwise lines 768-773, the URL test and `await page.waitForTimeout`
SuccVisibleDone ==
  /\ wp.pc = "succVisible"
  /\ wp' = IF wp.page.succ
             THEN [wp EXCEPT !.pc = "succText", !.atSucc = wp.page]
           ELSE IF wp.page.url # "op" /\ ~IncludesTargetPath(wp.page.url)
             THEN ReturnOutcome([wp EXCEPT !.atSucc = wp.page],
                                [state |-> "success", reason |-> "URL changed", by |-> "url"])
           ELSE [wp EXCEPT !.pc = "sleep", !.atSucc = wp.page]

\* line 764 resumes: line 765
SuccTextDone ==
  /\ wp.pc = "succText"
  /\ wp' = ReturnOutcome(wp, [state |-> "success",
                              reason |-> IF wp.page.succ THEN "success text"
                                         ELSE SuccessDetectedReason,
                              by |-> "text"])

\* line 773 resumes: the loop condition of line 757, then the next poll or
\* line 776; or waitForTimeout rejects (page closed) and the catch block of
\* verifyDepositResultStep (884-892) makes a failed step of the exception
SleepDone(ok, expired) ==
  /\ wp.pc = "sleep"
  /\ wp' = IF ~ok
             THEN [wp EXCEPT !.pc = "threw",
                             !.step = [status |-> "failed", error |-> "page closed"]]
           ELSE IF expired \/ wp.polls + 1 >= MaxPolls
             THEN ReturnOutcome([wp EXCEPT !.polls = @ + 1, !.timedOut = TRUE],
                                [state |-> "unknown", reason |-> NoSignalReason,
                                 by |-> "timeout"])
           ELSE [wp EXCEPT !.pc = "errVisible", !.polls = @ + 1]

WaitSteps ==
  \/ \E p \in Pages : StartWait(p)
  \/ \E p \in Pages : PageChanges(p)
  \/ ErrVisibleDone
  \/ ErrTextDone
  \/ SuccVisibleDone
  \/ SuccTextDone
  \/ \E ok \in BOOLEAN, expired \in BOOLEAN : SleepDone(ok, expired)

\* ------------------------------------------------------------------------
\* Server: execution options of a request (routes of createServer)
\* ------------------------------------------------------------------------
DEPOSIT_TURBO_TIMEOUT_MS == 15000

\* an optional field of a request body: <<>> when it is left out, <<v>> when
\* it is given
Given(opt) == opt # <<>>

\* opt ?? fallback
Nullish(opt, fallback) == IF Given(opt) THEN opt[1] ELSE fallback

Min(a, b) == IF a < b THEN a ELSE b

\* executionOverridesSchema: slowMo is at least 0, timeoutMs at least 1
OverridesValid(overrides) ==
  /\ Given(overrides.slowMo) => overrides.slowMo[1] >= 0
  /\ Given(overrides.timeoutMs) => overrides.timeoutMs[1] >= 1

resolveExecutionOptions(appConfig, overrides) ==
  [headless |-> Nullish(overrides.headless, appConfig.headless),
   debug |-> Nullish(overrides.debug, appConfig.debug),
   slowMo |-> Nullish(overrides.slowMo, appConfig.slowMo),
   timeoutMs |-> Nullish(overrides.timeoutMs, appConfig.timeoutMs)]

\* bug: the defaults of the funds route are those of the process
resolveDepositExecutionOptions_appDefaults(appConfig, overrides) ==
  resolveExecutionOptions(appConfig, overrides)

resolveDepositExecutionOptions(appConfig, overrides) ==
  LET turboTimeout == Min(appConfig.timeoutMs, DEPOSIT_TURBO_TIMEOUT_MS)
  IN [headless |-> Nullish(overrides.headless, FALSE),
      debug |-> Nullish(overrides.debug, FALSE),
      slowMo |-> Nullish(overrides.slowMo, 0),
      timeoutMs |-> Nullish(overrides.timeoutMs, turboTimeout)]

NoOptions == [headless |-> FALSE, debug |-> FALSE, slowMo |-> -1, timeoutMs |-> -1]

\* the AppConfig of the process and the execution fields of a request body
AppConfigs ==
  [headless : BOOLEAN, debug : BOOLEAN, slowMo : {0, 100},
   timeoutMs : {10000, 15000, 30000}]

Optional(values) == {<<>>} \cup {<<v>> : v \in values}

Overrides ==
  [headless : Optional(BOOLEAN), debug : Optional(BOOLEAN),
   slowMo : Optional({-1, 0, 55}), timeoutMs : Optional({0, 1, 28000})]

OptionInputs ==
  [appConfig : AppConfigs, overrides : Overrides, route : {"none"},
   statusCode : {0}, enqueued : {NoOptions}]

\* a POST handler: a body that fails the schema is answered with 400, any
\* other is enqueued with the resolved options and answered with 202
Post(route, options) ==
  /\ eo.route = "none"
  /\ IF OverridesValid(eo.overrides)
       THEN eo' = [eo EXCEPT !.route = route, !.statusCode = 202, !.enqueued = options]
       ELSE eo' = [eo EXCEPT !.route = route, !.statusCode = 400]

PostLogin == Post("/login", resolveExecutionOptions(eo.appConfig, eo.overrides))

PostDeposit ==
  Post("/users/deposit", resolveDepositExecutionOptions(eo.appConfig, eo.overrides))

OptionSteps == PostLogin \/ PostDeposit

NoOptionInput ==
  [appConfig |-> [headless |-> FALSE, debug |-> FALSE, slowMo |-> 0, timeoutMs |-> 15000],
   overrides |-> [headless |-> <<>>, debug |-> <<>>, slowMo |-> <<>>, timeoutMs |-> <<>>],
   route |-> "none", statusCode |-> 0, enqueued |-> NoOptions]

NoUsernameInput ==
  [value |-> <<>>, username |-> <<>>, results |-> <<>>, selected |-> NoSelection]
NoRowInput == [candidates |-> <<>>, username |-> <<>>, results |-> <<>>]
NoMoneyInput == [input |-> <<>>, called |-> "none", result |-> NoParse]

\* the variables a step of the pure functions leaves alone
UsernameNext ==
  /\ UsernameSteps
  /\ UNCHANGED poolVars /\ UNCHANGED leaseVars /\ UNCHANGED jobVars /\ UNCHANGED fundsVars
  /\ UNCHANGED <<cp, atShutdown, rs, mp, eo, wp>>

RowNext ==
  /\ RowSteps
  /\ UNCHANGED poolVars /\ UNCHANGED leaseVars /\ UNCHANGED jobVars /\ UNCHANGED fundsVars
  /\ UNCHANGED <<cp, atShutdown, um, mp, eo, wp>>

MoneyNext ==
  /\ MoneySteps
  /\ UNCHANGED poolVars /\ UNCHANGED leaseVars /\ UNCHANGED jobVars /\ UNCHANGED fundsVars
  /\ UNCHANGED <<cp, atShutdown, um, rs, eo, wp>>

OptionNext ==
  /\ OptionSteps
  /\ UNCHANGED poolVars /\ UNCHANGED leaseVars /\ UNCHANGED jobVars /\ UNCHANGED fundsVars
  /\ UNCHANGED <<cp, atShutdown, um, rs, mp, wp>>

WaitNext ==
  /\ WaitSteps
  /\ UNCHANGED poolVars /\ UNCHANGED leaseVars /\ UNCHANGED jobVars /\ UNCHANGED fundsVars
  /\ UNCHANGED <<cp, atShutdown, um, rs, mp, eo>>

\* ------------------------------------------------------------------------
\* Specifications
\* ------------------------------------------------------------------------
CoreInit == PoolInit /\ JobInit /\ FundsInit /\ CopyInit /\ atShutdown = {} /\ wp = WaitIdle

Init ==
  CoreInit /\ um = NoUsernameInput /\ rs = NoRowInput /\ mp = NoMoneyInput /\ eo = NoOptionInput

\* the session pool
Next == PoolNext /\ GrantHistory /\ UNCHANGED extraCalls /\ UNCHANGED jobVars /\ UNCHANGED fundsVars /\ UNCHANGED auxVars
Spec == Init /\ [][Next]_vars

\* the job manager
JobSpec == Init /\ [][JobNext]_vars

\* the limiter alone, within one tick of the clock, with executors that
\* settle and a limiter that runs its queue
JobFairness ==
  /\ WF_jobVars(Admit)
  /\ \A j \in JobIds :
       /\ WF_jobVars(SlotFreed(j))
       /\ WF_jobVars((\E result \in ExecutionResults : ExecutorReturn(j, result))
                       \/ (\E e \in Exceptions : ExecutorThrow(j, e)))

JobFairNext ==
  QueueSteps(JobIds, ExecutionResults, Exceptions) /\ UNCHANGED poolVars /\ UNCHANGED leaseVars /\ UNCHANGED fundsVars /\ UNCHANGED auxVars

JobFairSpec == Init /\ [][JobFairNext]_vars /\ JobFairness

\* two jobs whose records are read with getById by callers that keep them
LookupJobs == {1, 2}

LookupNext ==
  \/ /\ \/ QueueSteps(LookupJobs, ExecutionResults, Exceptions)
        \/ \E j \in LookupJobs : GetById(j, TRUE)
        \/ CleanupExpiredJobs
     /\ UNCHANGED poolVars /\ UNCHANGED leaseVars /\ UNCHANGED fundsVars /\ UNCHANGED auxVars
  \/ JobTick /\ UNCHANGED poolLocals /\ UNCHANGED leaseVars /\ UNCHANGED fundsVars /\ UNCHANGED auxVars

LookupSpec == Init /\ [][LookupNext]_vars

\* three jobs enqueued when the service starts, shutdown() called at any
\* moment, and a caller that reads job 1 with getById after the shutdown
ShutdownJobs == {1, 2, 3}

\* the exception of a failed funds job
StepFailures == { e \in Exceptions : e.steps.isArray }

ShutdownNext ==
  \/ /\ \/ now = 0 /\ (\E j \in ShutdownJobs : Enqueue(j))
        \/ Admit
        \/ \E j \in ShutdownJobs, result \in PlainResults : ExecutorReturn(j, result)
        \/ \E j \in ShutdownJobs, e \in StepFailures : ExecutorThrow(j, e)
        \/ \E j \in ShutdownJobs : SlotFreed(j)
        \/ ~sweepOn /\ GetById(1, TRUE)
        \/ CleanupExpiredJobs
        \/ Shutdown
     /\ ShutdownHistory
     /\ UNCHANGED poolVars /\ UNCHANGED leaseVars /\ UNCHANGED fundsVars /\ UNCHANGED cp
     /\ UNCHANGED pureVars
  \/ JobTick /\ UNCHANGED poolLocals /\ UNCHANGED leaseVars /\ UNCHANGED fundsVars /\ UNCHANGED auxVars

ShutdownSpec == Init /\ [][ShutdownNext]_vars /\ JobFairness

\* hasExactUsernameMatch on a value and a username drawn at the start
UsernameInit ==
  CoreInit /\ um \in UsernameInputs /\ rs = NoRowInput /\ mp = NoMoneyInput /\ eo = NoOptionInput

UsernameSpec == UsernameInit /\ [][UsernameNext]_vars

\* selectDepositRowIndex on a list of candidates drawn at the start
RowInit ==
  CoreInit /\ um = NoUsernameInput /\ rs \in RowInputs /\ mp = NoMoneyInput /\ eo = NoOptionInput

RowSpec == RowInit /\ [][RowNext]_vars

\* the two money parsers on a text drawn at the start
MoneyInit ==
  CoreInit /\ um = NoUsernameInput /\ rs = NoRowInput /\ mp \in MoneyInputs /\ eo = NoOptionInput

MoneySpec == MoneyInit /\ [][MoneyNext]_vars

\* the POST handlers on an AppConfig and a request body drawn at the start
OptionInit ==
  CoreInit /\ um = NoUsernameInput /\ rs = NoRowInput /\ mp = NoMoneyInput /\ eo \in OptionInputs

OptionSpec == OptionInit /\ [][OptionNext]_vars

\* one call of waitForDepositResult
WaitSpec == Init /\ [][WaitNext]_vars

\* one funds job
FundsSpec == Init /\ [][FundsNext]_vars

\* one job's record, read with getById by callers that write to what they get
CopySpec == Init /\ [][CopyNext]_vars

\* pooled leases of one agent, with release() and invalidate() called again
\* on leases that are finished
LeaseNext ==
  /\ \/ PooledSteps(OneAgentRequests) /\ UNCHANGED extraCalls
     \/ \E c \in Calls : ReleaseAgain(c)
     \/ \E c \in Calls : InvalidateAgain(c)
  /\ GrantHistory /\ UNCHANGED jobVars /\ UNCHANGED fundsVars /\ UNCHANGED auxVars

LeaseSpec == Init /\ [][LeaseNext]_vars

\* pooled acquires whose configurations differ in one component of the key
KeyNext ==
  /\ \/ PooledSteps(KeyRequests)
     \/ \E c \in Calls, ok \in BOOLEAN : EvictCloseDone(c, ok)
  /\ GrantHistory /\ UNCHANGED extraCalls /\ UNCHANGED jobVars /\ UNCHANGED fundsVars /\ UNCHANGED auxVars

KeySpec == Init /\ [][KeyNext]_vars


\* ------------------------------------------------------------------------
\* Session pool: vocabulary of the claims
\* ------------------------------------------------------------------------
\* call c holds the per-key mutex without having returned its lease yet
InAcquire(c) ==
  pc[c] \in {"sweepClose", "swept", "probing", "staleClose", "evictClose", "creating"}

\* the lease of call c has been returned and neither release nor invalidate
\* has finished on it
LeaseOutstanding(c) == pc[c] \in {"holding", "invClose"}

\* the lease of call c is finished: its mutex is unlocked
LeaseFinished(c) == pc[c] \in {"released", "invalidated"}

SameKey(a, b) ==
  /\ pc[a] # "idle" /\ pc[b] # "idle"
  /\ Pooled(a) /\ Pooled(b)
  /\ KeyOf(a) = KeyOf(b)

\* C1: at most one lease per cache key is outstanding at any instant, and no
\* acquire on the key is past its mutex wait while a lease on it is outstanding
C1_OneLeasePerKey ==
  \A a \in Calls : \A b \in Calls :
    (a # b /\ SameKey(a, b) /\ LeaseOutstanding(a)) =>
      ~(LeaseOutstanding(b) \/ InAcquire(b))

\* a second acquire on the key waits while the first lease is outstanding,
\* after an earlier lease on it was already released
C1_Witness ==
  \E a \in Calls : \E b \in Calls : \E c \in Calls :
    /\ a < b /\ b < c /\ SameKey(a, b) /\ SameKey(b, c)
    /\ pc[a] = "released" /\ pc[b] = "holding" /\ pc[c] = "waitLock"

\* C2: at most one operation runs against the console for one agent, whatever
\* the execution options of the jobs (as claimed; the code runs two)
C2_OneOperationPerAgent ==
  \A a \in Calls : \A b \in Calls :
    (a # b /\ pc[a] = "holding" /\ pc[b] = "holding") =>
      req[a].agent # req[b].agent

\* C8: pooled acquires on one key are granted in call order: a later call is
\* past its mutex wait only when every earlier call on the key was granted a
\* lease that is now released or invalidated
C8_FifoGrant ==
  \A a \in Calls : \A b \in Calls :
    (a < b /\ SameKey(a, b) /\ pc[b] # "waitLock") => LeaseFinished(a)

\* three calls on one key: the first finished, the second holds the lease, the
\* third, called last, still waits
C8_Witness ==
  \E a \in Calls : \E b \in Calls : \E c \in Calls :
    /\ a < b /\ b < c /\ SameKey(a, b) /\ SameKey(b, c)
    /\ pc[a] = "invalidated" /\ pc[b] = "holding" /\ pc[c] = "waitLock"
    /\ prev[c] = b

\* C9: the entries map never holds more than maxAgents entries (as claimed; two
\* acquires on different keys both pass the size check before either inserts)
C9_AtMostMaxAgents == Len(entries) <= PoolMaxAgents

\* the call before b on b's key (0: none)
PrevOnKey(b) ==
  LET S == { a \in Calls : a < b /\ SameKey(a, b) } IN
  IF S = {} THEN 0 ELSE CHOOSE a \in S : \A x \in S : x <= a

\* the lease is returned to call b in this step
Granted(b) == pc[b] \in {"probing", "creating"} /\ pc'[b] = "holding"

\* C10 as claimed: after release(), the next acquire on the key returns
\* reused=true and the same session when it is granted within the TTL since
\* the release, the session is usable and no capacity eviction removed the entry
C10_ReuseAfterRelease ==
  [][\A b \in Calls :
       LET a == PrevOnKey(b) IN
       (/\ Granted(b)
        /\ a # 0
        /\ pc[a] = "released"
        /\ now - relTime[a] <= PoolTtl
        /\ alive[entryOf[a]]
        /\ evictedBy[entryOf[a]] # "capacity")
       => (reused'[b] /\ entryOf'[b] = entryOf[a])]_vars

\* ------------------------------------------------------------------------
\* Session pool under the event loop's scheduling: a continuation whose
\* promise is settled is run, and a close() or launch() in flight settles
\* (resolved or rejected)
\* ------------------------------------------------------------------------
PoolFairness ==
  \A c \in Calls :
    /\ WF_poolVars(LockGranted(c))
    /\ WF_poolVars(Lookup(c))
    /\ WF_poolVars(ProbeDone(c))
    /\ WF_poolVars(\E ok \in BOOLEAN : SweepCloseDone(c, ok))
    /\ WF_poolVars(\E ok \in BOOLEAN : StaleCloseDone(c, ok))
    /\ WF_poolVars(\E ok \in BOOLEAN : InvCloseDone(c, ok))
    /\ WF_poolVars(CreateDone(c) \/ CreateFailed(c))

FairNext ==
  /\ PooledSteps(OneAgentRequests)
  /\ GrantHistory /\ UNCHANGED extraCalls /\ UNCHANGED jobVars /\ UNCHANGED fundsVars /\ UNCHANGED auxVars

FairSpec == Init /\ [][FairNext]_vars /\ PoolFairness

\* C7: invalidate() always unlocks the mutex, whatever close() did: an
\* invalidate in flight ends with the mutex unlocked, and an acquire on the key
\* queued behind the invalidated lease gets past its mutex wait
C7_InvalidateUnlocks ==
  \A a \in Calls :
    /\ (pc[a] = "invClose") ~> (pc[a] = "invalidated" /\ unlocked[a])
    /\ \A b \in Calls :
         (pc[a] \in {"invClose", "invalidated"} /\ pc[b] = "waitLock" /\ prev[b] = a)
           ~> (pc[b] # "waitLock")

\* the close of an invalidated entry failed (the page is still open) and the
\* acquire that waited behind that lease holds the mutex
C7_Witness ==
  \E a \in Calls : \E b \in Calls :
    /\ a < b /\ SameKey(a, b)
    /\ pc[a] = "invalidated" /\ unlocked[a] /\ alive[entryOf[a]]
    /\ evictedBy[entryOf[a]] = "invalidate"
    /\ pc[b] \in {"swept", "creating", "holding"}

\* ------------------------------------------------------------------------
\* JobManager: claims
\* ------------------------------------------------------------------------
JobsWithStatus(st) == { j \in JobIds : jobs[j].status = st }

Enqueued == { j \in JobIds : jobs[j].status # "absent" }

\* every executor started so far is still blocked
AllExecutorsBlocked == \A j \in Enqueued : jobs[j].status \in {"queued", "running"}

\* the limiter has started every callback it has a free slot for
AdmissionSettled == ~(limQueue # <<>> /\ Cardinality(limActive) < Concurrency)

ForwardSteps ==
  { <<"absent", "queued">>, <<"queued", "running">>,
    <<"running", "succeeded">>, <<"running", "failed">>,
    <<"succeeded", "expired">>, <<"failed", "expired">> }

\* C6: with distinct ids, a record's status only moves forward along queued,
\* running, succeeded or failed, expired: no step goes back or skips running
C6_StatusForward ==
  [][\A j \in JobIds :
       jobs'[j].status # jobs[j].status =>
         <<jobs[j].status, jobs'[j].status>> \in ForwardSteps]_vars

\* one record went all the way to expired while another is running and a
\* third is still queued
C6_Witness ==
  \E j \in JobIds : \E k \in JobIds : \E l \in JobIds :
    /\ jobs[j].status = "expired" /\ jobs[j].startedAt # NoTime
    /\ jobs[j].finishedAt # NoTime
    /\ jobs[k].status = "running"
    /\ jobs[l].status = "queued"

\* ------------------------------------------------------------------------
\* Funds job: claims
\* ------------------------------------------------------------------------
\* C3: the deposit or withdrawal of a funds job is applied to the account at
\* most once (as claimed; the code clicks submit again after an unknown
\* outcome, and the console may have applied the first click)
C3_AppliedAtMostOnce == fj.applied <= 1

\* the tolerance of the reconciliation, 0.005
Tolerance == 5

\* the verification saw a success text or a URL outside the operation page,
\* or the balance read afterwards is the expected one within the tolerance
SuccessEvidence ==
  \/ fj.obs.succ
  \/ ~IncludesTargetPath(fj.obs.url)
  \/ /\ fj.balRead # NoBalance
     /\ fj.before # NoBalance
     /\ Abs(fj.balRead - computeExpectedUserBalance(fj.op, fj.amount, fj.before)) < Tolerance

\* C4: a funds job ends succeeded only with such evidence; every other run
\* that ends, ends failed
C4_SuccessOnlyWithEvidence ==
  /\ fj.result = "succeeded" => SuccessEvidence
  /\ fj.pc = "done" => fj.result \in {"succeeded", "failed"}
  /\ (fj.pc = "done" /\ ~SuccessEvidence) => fj.result = "failed"

\* a job succeeded on the balance alone, after two verifications without a
\* signal; and (next run) one failed because the balance did not match
C4_Witness ==
  /\ fj.result = "succeeded"
  /\ fj.clicks = 2
  /\ ~fj.obs.succ /\ IncludesTargetPath(fj.obs.url)
  /\ fj.balRead # NoBalance

\* ------------------------------------------------------------------------
\* Session pool: claims on fresh sessions, repeated lease calls, isolation
\* ------------------------------------------------------------------------
\* session s is stored in the map ents
InPool(ents, s) == \E i \in 1..Len(ents) : ents[i].sess = s

\* C11: the acquire that follows an invalidated lease on its key, and an
\* acquire that found the key's entry older than the TTL when it got the mutex,
\* return a fresh session with reused=false, and the old session is no longer
\* in the pool
C11_FreshAfterInvalidateOrExpiry ==
  [][\A b \in Calls :
       Granted(b) =>
         LET a == PrevOnKey(b) IN
         /\ (a # 0 /\ pc[a] = "invalidated") =>
              /\ ~reused'[b]
              /\ entryOf'[b] # entryOf[a]
              /\ ~InPool(entries', entryOf[a])
         /\ expiredAtGrant[b] # 0 =>
              /\ ~reused'[b]
              /\ entryOf'[b] # expiredAtGrant[b]
              /\ ~InPool(entries', expiredAtGrant[b])]_vars

\* three leases on one key: the first was invalidated, the second got a fresh
\* session and released it, the third came after the TTL and got a fresh one
C11_Witness ==
  \E a \in Calls : \E b \in Calls : \E c \in Calls :
    /\ a < b /\ b < c /\ SameKey(a, b) /\ SameKey(b, c)
    /\ pc[a] = "invalidated" /\ evictedBy[entryOf[a]] = "invalidate"
    /\ pc[b] = "released" /\ ~reused[b] /\ entryOf[b] = b
    /\ evictedBy[b] = "ttl"
    /\ pc[c] = "holding" /\ ~reused[c] /\ entryOf[c] = c

\* C12: a further release() or invalidate() on a lease that was released or
\* invalidated changes neither the entry map nor the lock state (nor closes
\* any session)
C12_LeaseCallsIdempotent ==
  [][extraCalls' # extraCalls =>
       /\ entries' = entries
       /\ locks' = locks
       /\ unlocked' = unlocked
       /\ alive' = alive]_vars

\* further calls were made on a finished lease while a later lease on the key
\* is held, its session stored and its mutex locked
C12_Witness ==
  \E a \in Calls : \E b \in Calls :
    /\ a < b /\ SameKey(a, b)
    /\ extraCalls = MaxExtraCalls
    /\ LeaseFinished(a)
    /\ pc[b] = "holding" /\ ~unlocked[b] /\ locks[KeyOf(b)] = b
    /\ InPool(entries, entryOf[b])

\* the fast profile: debug off and no slow-motion delay
FastProfile(r) == r.debug = FALSE /\ r.slowMo = 0

WasGranted(c) == pc[c] \in {"holding", "invClose", "released", "invalidated"}

\* agent.trim().toLowerCase() as the claim states it
TrimLower(agent) == IF agent = " A1" THEN "a1" ELSE agent

SameEffectiveConfig(ra, rb) ==
  /\ TrimLower(ra.agent) = TrimLower(rb.agent)
  /\ ra.baseUrl = rb.baseUrl
  /\ ra.headless = rb.headless
  /\ ra.blockResources = rb.blockResources

\* C15: two pooled acquires that were given the same session agree on the
\* trimmed, lower-cased agent, the base URL, the headless flag and the
\* resource-blocking flag
C15_SharedOnlyOnEqualKey ==
  \A a \in Calls : \A b \in Calls :
    (/\ a # b /\ WasGranted(a) /\ WasGranted(b)
     /\ Pooled(a) /\ Pooled(b)
     /\ entryOf[a] = entryOf[b])
    => SameEffectiveConfig(req[a], req[b])

\* "a1" and " A1" share one session while an acquire that differs in the base
\* URL holds a session of its own
C15_Witness ==
  \E a \in Calls : \E b \in Calls : \E c \in Calls :
    /\ a < b /\ pc[a] = "released" /\ pc[b] = "holding"
    /\ req[a].agent # req[b].agent /\ entryOf[a] = entryOf[b] /\ reused[b]
    /\ pc[c] = "holding" /\ req[c].baseUrl # req[a].baseUrl
    /\ entryOf[c] # entryOf[a]

\* ------------------------------------------------------------------------
\* Funds job: the lease
\* ------------------------------------------------------------------------
\* C13: a run of runDepositJob that obtained a lease has called exactly one of
\* release and invalidate on it when it returns or throws: release when the job
\* succeeded, invalidate when it failed; a run without a lease calls neither
C13_ExactlyOneLeaseCall ==
  /\ fj.releases + fj.invalidates <= 1
  /\ ~fj.leased => fj.releases + fj.invalidates = 0
  /\ (fj.pc = "done" /\ fj.leased) =>
       /\ fj.releases + fj.invalidates = 1
       /\ fj.result = "succeeded" => fj.releases = 1
       /\ fj.result = "failed" => fj.invalidates = 1

\* a job that clicked submit failed in the verification and invalidated its
\* lease
C13_Witness ==
  /\ fj.pc = "done" /\ fj.leased /\ fj.result = "failed"
  /\ fj.clicks >= 1 /\ fj.verify.status = "failed"
  /\ fj.invalidates = 1 /\ fj.releases = 0

\* ------------------------------------------------------------------------
\* JobManager: claims on admission order, records and expiry
\* ------------------------------------------------------------------------
\* C16: jobs leave queued in the order of their enqueue: no job has left
\* queued while a job enqueued before it is still queued
C16_FifoAdmission ==
  \A a \in JobIds : \A b \in JobIds :
    (a < b /\ jobs[a].status = "queued") => jobs[b].status \in {"absent", "queued"}

\* both slots were freed and taken again in order: the first three jobs are
\* past queued, the fourth still waits
C16_Witness ==
  /\ jobs[1].status \in {"succeeded", "failed"}
  /\ jobs[2].status = "running"
  /\ jobs[3].status = "running"
  /\ jobs[4].status = "queued"

\* the executor of job j settles in this step
Settles(j) == j \in executing /\ j \notin executing'

\* the lists a failed record takes from the exception e
ContextOf(e) ==
  [steps |-> IF e.steps.isArray THEN e.steps.value ELSE <<>>,
   artifactPaths |-> IF e.artifactPaths.isArray THEN e.artifactPaths.value ELSE <<>>]

\* C17: when the executor of a job throws, its record becomes failed with the
\* exception's message as error and the steps and artifact paths attached to
\* the exception, or empty lists, and no other record changes; its slot is then
\* freed, and every job that is queued while a job has failed is admitted
C17_FailureRecordedAndIsolated ==
  /\ [][\A j \in JobIds :
          (Settles(j) /\ jobs'[j].status # "succeeded") =>
            /\ jobs'[j].status = "failed"
            /\ \E e \in Exceptions :
                 /\ jobs'[j].error = e.message
                 /\ jobs'[j].steps = ContextOf(e).steps
                 /\ jobs'[j].artifactPaths = ContextOf(e).artifactPaths
            /\ jobs'[j].result = NoResult
            /\ \A k \in JobIds \ {j} : jobs'[k] = jobs[k]]_vars
  /\ \A j \in JobIds :
       (jobs[j].status = "failed") ~> (j \notin limActive)
  /\ \A j \in JobIds : \A k \in JobIds :
       (jobs[j].status = "failed" /\ jobs[k].status = "queued")
         ~> (jobs[k].status # "queued")

\* two jobs failed, one with steps attached and one without, and the two jobs
\* queued behind them were admitted
C17_Witness ==
  /\ jobs[1].status = "failed" /\ jobs[1].steps # <<>>
  /\ jobs[2].status = "failed" /\ jobs[2].steps = <<>>
  /\ jobs[1].error # jobs[2].error
  /\ jobs[3].status = "running" /\ jobs[4].status = "running"

\* C18: when the executor of a job returns, its record becomes succeeded with
\* exactly the artifact paths, steps and result returned, and no error
C18_SuccessRecorded ==
  [][\A j \in JobIds :
       (Settles(j) /\ jobs'[j].status # "failed") =>
         /\ jobs'[j].status = "succeeded"
         /\ jobs'[j].error = "none"
         /\ \E r \in ExecutionResults :
              /\ jobs'[j].artifactPaths = r.artifactPaths
              /\ jobs'[j].steps = r.steps
              /\ jobs'[j].result = r.result]_vars

\* one job succeeded with a result value, a trace and two steps, the other
\* without a result value
C18_Witness ==
  \E j \in JobIds : \E k \in JobIds :
    /\ jobs[j].status = "succeeded" /\ jobs[j].result # NoResult
    /\ jobs[j].artifactPaths # <<>> /\ Len(jobs[j].steps) = 2
    /\ jobs[k].status = "succeeded" /\ jobs[k].result = NoResult

\* a record whose expiry is due at time t
ExpiryDue(entry, t) ==
  /\ entry.status \in {"succeeded", "failed"}
  /\ t - entry.finishedAt > JobTtl

\* the record of job j is marked expired in this step
Flips(j) == jobs'[j].status = "expired" /\ jobs[j].status # "expired"

\* C19: getById and the sweep mark a record expired exactly when it is
\* succeeded or failed and now - finishedAt > TTL: a record is marked only when
\* that is due (so never while queued or running), the record getById returns
\* already shows the flip, and a sweep marks every record that is due
C19_ExpiryExactlyWhenDue ==
  [][\A j \in JobIds :
       /\ Flips(j) => ExpiryDue(jobs[j], now)
       /\ (got' # got /\ got'.id = j) =>
            /\ got'.entry.status = (IF ExpiryDue(jobs[j], now) THEN "expired"
                                    ELSE jobs[j].status)
            /\ jobs'[j].status = got'.entry.status
       /\ ((\E k \in JobIds : Flips(k)) /\ got' = got /\ ExpiryDue(jobs[j], now))
            => jobs'[j].status = "expired"]_vars

\* getById returned a record as expired in the very call that marked it, while
\* another job has been running for longer than the TTL
C19_Witness ==
  \E j \in JobIds : \E k \in JobIds :
    /\ got.id = j /\ got.at = now /\ got.entry.status = "expired"
    /\ jobs[j].status = "expired" /\ jobs[j].finishedAt < now - JobTtl
    /\ jobs[k].status = "running" /\ now - jobs[k].startedAt > JobTtl

\* C20: a record that is succeeded, failed or expired is changed by no later
\* enqueue, getById or sweep, except that a succeeded or failed record may
\* become expired, which changes its status field only
C20_TerminalFrozen ==
  [][\A j \in JobIds :
       jobs[j].status \in {"succeeded", "failed", "expired"} =>
         \/ jobs'[j] = jobs[j]
         \/ /\ jobs[j].status # "expired"
            /\ jobs'[j] = [jobs[j] EXCEPT !.status = "expired"]]_vars

\* a record with a result, steps and artifact paths expired, and a job
\* enqueued after it had finished failed later
C20_Witness ==
  \E j \in JobIds : \E k \in JobIds :
    /\ jobs[j].status = "expired" /\ jobs[j].result # NoResult
    /\ jobs[j].steps # <<>> /\ jobs[j].artifactPaths # <<>>
    /\ jobs[k].status = "failed" /\ jobs[k].createdAt >= jobs[j].finishedAt
    /\ jobs[k].steps # <<>>

\* ------------------------------------------------------------------------
\* C21: the record returned by getById is a copy.  Whatever a caller writes
\* to the returned record, its artifact-path list, its step list, a step
\* object or its result, the stored record keeps the paths, steps and result
\* it was written with (its status only moves to expired), and the record a
\* getById has just returned has the stored values.
C21_ReturnedRecordIsCopy ==
  cp.store # 0 =>
    /\ Deep(cp.heap, cp.store).refs = cp.orig.refs
    /\ Deep(cp.heap, cp.store).prims \in {cp.orig.prims, <<"expired">>}
    /\ cp.held \cap Reach(cp.heap, cp.store) = {}
    /\ cp.fresh => Deep(cp.heap, cp.last) = Deep(cp.heap, cp.store)

\* a caller has overwritten every object of the first record it got, result
\* included, and a later getById has just returned
C21_Witness ==
  /\ cp.gets = 2
  /\ cp.fresh
  /\ Cardinality({o \in cp.held : cp.heap[o].prims = <<"mutated">>}) >= 5
  /\ \E o \in cp.held : cp.heap[o].kind = "result" /\ cp.heap[o].prims = <<"mutated">>

\* ------------------------------------------------------------------------
\* C22: shutdown() only stops the background sweep.  The call changes no
\* record and nothing of the limiter; a job that is queued or running once
\* shutdown was called is still admitted and still reaches succeeded or
\* failed; getById called after shutdown still marks a due record expired,
\* in the store and in the record it returns
C22_ShutdownStopsOnlySweep ==
  /\ [][(sweepOn /\ ~sweepOn') => UNCHANGED <<jobs, limQueue, limActive, executing>>]_vars
  /\ [][\A j \in JobIds :
          (~sweepOn /\ got' # got /\ got'.id = j) =>
            /\ got'.entry.status = (IF ExpiryDue(jobs[j], now) THEN "expired"
                                    ELSE jobs[j].status)
            /\ jobs'[j].status = got'.entry.status]_vars
  /\ \A j \in ShutdownJobs :
       (~sweepOn /\ jobs[j].status = "queued") ~> (jobs[j].status = "running")
  /\ \A j \in ShutdownJobs :
       (~sweepOn /\ jobs[j].status \in {"queued", "running"})
         ~> (jobs[j].status \in {"succeeded", "failed"})

\* shutdown was called with two jobs running and one queued; all three have
\* finished since, and getById marked one of them expired
C22_Witness ==
  /\ ~sweepOn
  /\ Cardinality(atShutdown) = 3
  /\ \A j \in atShutdown : jobs[j].status \in {"succeeded", "failed", "expired"}
  /\ \E j \in atShutdown :
       got.id = j /\ got.entry.status = "expired" /\ jobs[j].status = "expired"

\* ------------------------------------------------------------------------
\* Funds job: claims on the step sequence, the login and the fallback
\* ------------------------------------------------------------------------
\* the positions of the failed steps in the step list
FailedSteps == {i \in 1..Len(fj.steps) : fj.steps[i].status = "failed"}

\* the names of the steps in the step list, in order
StepNames == [i \in 1..Len(fj.steps) |-> fj.steps[i].name]

\* the position of step `name` in the sequence of the operation
PositionOf(name) ==
  CHOOSE i \in 1..Len(StepSequence(fj.op)) : StepSequence(fj.op)[i] = name

LoginOver == fj.auth # <<>> /\ fj.pc \notin {"login", "loginWait"}

\* the pause before the second attempt rejected
PauseThrew == fj.waits = <<"threw">>

\* C24 as stated: at most two attempts; an invalid-credentials failure is the
\* last attempt and fails the job; any other failure of the first attempt is
\* followed by exactly one more attempt, whose failure fails the job
C24_AsStated ==
  /\ Len(fj.auth) <= 2
  /\ \A i \in 1..Len(fj.auth) :
       fj.auth[i] = "invalid" => (i = Len(fj.auth) /\ fj.result = "failed")
  /\ (LoginOver /\ fj.auth[1] = "other") => Len(fj.auth) = 2
  /\ (Len(fj.auth) = 2 /\ fj.auth[2] # "ok") => fj.result = "failed"

\* C24: at most two attempts; an invalid-credentials failure is the last
\* attempt and fails the job; any other failure of the first attempt is
\* followed by the 1.5 s pause and, when the pause does not reject, by exactly
\* one more attempt, whose failure fails the job; a pause that rejects fails
\* the job after the one attempt
C24_AtMostTwoAttempts ==
  /\ Len(fj.auth) <= 2
  /\ \A i \in 1..Len(fj.auth) :
       fj.auth[i] = "invalid" => (i = Len(fj.auth) /\ fj.result = "failed")
  /\ (LoginOver /\ fj.auth[1] = "other") =>
       \/ Len(fj.auth) = 2 /\ fj.waits = <<"ok">>
       \/ Len(fj.auth) = 1 /\ PauseThrew /\ fj.result = "failed"
  /\ (Len(fj.auth) = 2 /\ fj.auth[2] # "ok") => fj.result = "failed"
  /\ (fj.auth # <<>> /\ fj.auth[1] # "other") => fj.waits = <<>>

\* the first attempt failed otherwise, the second named invalid credentials
\* and failed the job with no step recorded
C24_Witness ==
  /\ fj.auth = <<"other", "invalid">>
  /\ fj.result = "failed" /\ fj.steps = <<>>
  /\ fj.error = ErrorMessage("login failed", "none", "invalid")

\* C25: the re-submit and the balance reconciliation run only after a
\* verification outcome of unknown: once the first verification or the
\* re-verification has seen a recognized error text, the balance is not read
\* again and the job does not end succeeded
C25_NoFallbackAfterErrorText ==
  /\ fj.clicks = 2 => fj.first.state = "unknown"
  /\ fj.balanceTried => fj.first.state = "unknown"
  /\ (fj.first.state = "error" \/ fj.second.state = "error") =>
       /\ ~fj.balanceTried
       /\ fj.pc # "balance"
       /\ fj.result # "succeeded"

\* the UI outcome stayed unknown: the first verification timed out without a
\* signal and the re-verification, if there was one, did as well
StayedUnknown ==
  /\ fj.first.state = "unknown"
  /\ fj.second.state \in {"none", "unknown"}

\* the balance re-read from the users list matches the expected balance
BalanceMatches ==
  /\ fj.balRead # NoBalance
  /\ Abs(fj.balRead - computeExpectedUserBalance(fj.op, fj.amount, fj.before)) < Tolerance

\* the expected balance as the claim states it
ExpectedAsStated ==
  IF fj.op = "carga" THEN fj.before + fj.amount
  ELSE IF fj.op = "descarga" THEN fj.before - fj.amount
  ELSE 0

\* C26 as stated: when the UI outcome stayed unknown and a balance was
\* recorded before the operation, the job ends succeeded if and only if the
\* re-read balance matches the expected one, and failed otherwise
C26_AsStated ==
  (fj.pc = "done" /\ StayedUnknown /\ fj.before # NoBalance) =>
    /\ fj.result = "succeeded" <=> BalanceMatches
    /\ ~BalanceMatches => fj.result = "failed"

\* C26: when the UI outcome stayed unknown and a balance was recorded before
\* the operation, the verification step is ok if and only if the balance
\* re-read from the users list differs from the expected balance (before +
\* amount, before - amount, 0 for a full withdrawal) by less than the
\* tolerance; the job ends failed when the balance does not match or cannot
\* be read, and ends succeeded on a match unless the closing actions after
\* the verification throw
C26_BalanceDecides ==
  (fj.pc = "done" /\ StayedUnknown /\ fj.before # NoBalance) =>
    /\ fj.balanceTried
    /\ computeExpectedUserBalance(fj.op, fj.amount, fj.before) = ExpectedAsStated
    /\ fj.verify.status = "ok" <=> BalanceMatches
    /\ ~BalanceMatches =>
         /\ fj.result = "failed"
         /\ fj.error.text = "Step failed"
    /\ fj.result = "succeeded" => BalanceMatches
    /\ (BalanceMatches /\ fj.result # "succeeded") =>
         /\ fj.result = "failed"
         /\ fj.error.text # "Step failed"
         /\ fj.steps[Len(fj.steps)].name = "99-final"

\* after two verifications without a signal a withdrawal of 5 from a balance
\* of 10 succeeded on a listed balance of 5
C26_Witness ==
  /\ fj.pc = "done" /\ StayedUnknown /\ fj.second.state = "unknown"
  /\ fj.op = "descarga" /\ fj.amount = 5000
  /\ fj.balRead = 5000 /\ fj.result = "succeeded"

\* the verification step failed although the first verification was unknown:
\* neither the re-verification nor the balance confirmed success
FallbackInconclusive ==
  /\ fj.pc = "done"
  /\ fj.first.state = "unknown"
  /\ fj.verify.status = "failed"

\* C27: when neither the re-verification nor the balance reconciliation
\* confirms success, the job fails with the reason of the first verification's
\* unknown outcome (no clear success signal), whatever the re-verification
\* reported
C27_OriginalReasonKept ==
  FallbackInconclusive =>
    /\ fj.result = "failed"
    /\ fj.error = StepFailed(getOperationStepNames(fj.op).verifyResult, fj.first.reason)
    /\ fj.first.reason = NoSignalReason

\* ------------------------------------------------------------------------
\* Row matching and money parsing: claims
\* ------------------------------------------------------------------------
\* the positions of the candidates that have the action control and an exact
\* match of the username in their usernames or their row text
Eligible ==
  {i \in 1..Len(rs.candidates) :
     rs.candidates[i].hasAction /\ IsExactCandidate(rs.candidates[i], rs.username)}

\* C28: selectDepositRowIndex returns the index field of the single candidate
\* that has the action control and an exact match; it throws when there is no
\* such candidate and when there are several; every call, on any ordering of
\* the list, gives the same index or the same kind of error
C28_SelectsTheSingleExactRow ==
  \A k \in 1..Len(rs.results) :
    /\ Cardinality(Eligible) = 1 =>
         \A i \in Eligible : rs.results[k].result = Returned(rs.candidates[i].index)
    /\ Cardinality(Eligible) = 0 =>
         rs.results[k].result.kind \in {"No actionable rows", "No exact unique match"}
    /\ Cardinality(Eligible) > 1 =>
         rs.results[k].result = Thrown("Multiple exact matches")
    /\ rs.results[k].result = rs.results[1].result

\* of three actionable candidates, the first with a longer identifier, only
\* the last matches exactly; two calls on different orderings returned its
\* index field
C28_Witness ==
  /\ Len(rs.candidates) = 3 /\ Len(rs.results) = 2
  /\ rs.results[1].order # rs.results[2].order
  /\ rs.candidates[1].hasAction /\ rs.candidates[1].usernames = <<LongerName>>
  /\ Eligible = {3}
  /\ rs.results[2].result = Returned(1)

\* the characters of identifiers after normalization: lower-case letters,
\* digits and underscore
IdentifierChars == {"a", "2", "_"}

\* word occurs in text with a non-identifier character or the boundary of the
\* text on both sides
BoundedOccurrence(text, word) ==
  \E i \in 1..Len(text) : \E j \in i..Len(text) :
    /\ SubSeq(text, i, j) = word
    /\ (i = 1 \/ text[i - 1] \notin IdentifierChars)
    /\ (j = Len(text) \/ text[j + 1] \notin IdentifierChars)

\* C29: hasExactUsernameMatch(value, username) is true only when the
\* normalized username occurs in the normalized value with a non-identifier
\* character or the string boundary on both sides; so a value in which the
\* username is only part of a longer identifier does not match, and a row
\* with such a value is not selected
C29_ExactMatchNeedsBoundaries ==
  LET bounded == BoundedOccurrence(normalizeDepositText(um.value),
                                   normalizeDepositText(um.username))
  IN /\ \A k \in 1..Len(um.results) : um.results[k] => bounded
     /\ um.selected.kind = "index" => bounded
     /\ (um.selected # NoSelection /\ ~bounded) =>
          um.selected = Thrown("No exact unique match")

\* the value a_2 was matched twice against the username a without a match,
\* and the row with that value was not selected
C29_Witness ==
  /\ um.value = <<"a", "_", "2">> /\ um.username = <<"a">>
  /\ um.results = <<FALSE, FALSE>>
  /\ um.selected = Thrown("No exact unique match")

\* the text is made of digits and separators only, with a digit
PlainMoney(text) ==
  /\ \A i \in 1..Len(text) : text[i] \in DigitChars \cup {",", "."}
  /\ \E i \in 1..Len(text) : text[i] \in DigitChars

DigitsOf(text) == SelectSeq(text, LAMBDA c : c \in DigitChars)

Count(text, c) == Len(text) - Len(Without(text, c))

\* the number whose integer part are the digits before position i of the
\* text and whose fraction are the digits after it
SplitAt(text, i) ==
  Num(FALSE, IntOf(DigitsOf(SubSeq(text, 1, i - 1))),
      StripTrailingZeros(DigitsOf(SubSeq(text, i + 1, Len(text)))))

\* every dot of the text is followed by a group of exactly three digits, and
\* the text starts with a digit
DotsGroupThousands(text) ==
  /\ text # <<>> /\ text[1] \in DigitChars
  /\ \A i \in 1..Len(text) :
       text[i] = "." =>
         /\ i + 3 <= Len(text)
         /\ \A k \in (i + 1)..(i + 3) : text[k] \in DigitChars
         /\ (i + 3 = Len(text) \/ text[i + 4] = ".")

RuntimeConfigOf(options) ==
  JobRequest("a1", options.headless, options.debug, options.slowMo)

NoOverrides ==
  \A f \in {"headless", "debug", "slowMo", "timeoutMs"} : ~Given(eo.overrides[f])

\* C31: a funds request without execution overrides is enqueued with
\* headless = false, debug = false, slowMo = 0 and timeoutMs = min(configured
\* timeout, 15000), a profile the session pool accepts; every override given
\* in the request is kept unchanged in the options of the enqueued job
C31_TurboDefaultsAndOverridesKept ==
  (eo.route = "/users/deposit" /\ eo.statusCode = 202) =>
    /\ NoOverrides =>
         /\ eo.enqueued = [headless |-> FALSE, debug |-> FALSE, slowMo |-> 0,
                           timeoutMs |-> IF eo.appConfig.timeoutMs <= 15000
                                           THEN eo.appConfig.timeoutMs ELSE 15000]
         /\ PoolingAllowed(RuntimeConfigOf(eo.enqueued))
    /\ \A f \in {"headless", "debug", "slowMo", "timeoutMs"} :
         Given(eo.overrides[f]) => eo.enqueued[f] = eo.overrides[f][1]

\* a funds request without overrides was enqueued in a process configured
\* headless, with debug, slow motion and a timeout of 30000
C31_Witness ==
  /\ eo.route = "/users/deposit" /\ eo.statusCode = 202 /\ NoOverrides
  /\ eo.appConfig = [headless |-> TRUE, debug |-> TRUE, slowMo |-> 100, timeoutMs |-> 30000]
  /\ eo.enqueued.timeoutMs = 15000

\* ------------------------------------------------------------------------
\* Session pool: eviction, failure and lock table claims
\* ------------------------------------------------------------------------
\* C32: the session of an outstanding pooled lease is never taken out of the
\* entry map by the TTL sweep or the capacity eviction of an acquire, which
\* run under the mutex of the acquiring call's key only (as claimed; the
\* sweep and the eviction go over the entries of every key)
C32_LeasedEntryNotEvicted ==
  \A c \in Calls :
    (pc[c] = "holding" /\ Pooled(c)) => evictedBy[entryOf[c]] \notin {"ttl", "capacity"}

\* call c runs evictOldestIfNeeded in this step: it found no usable entry
\* for its key
RunsEvictOldest(c) ==
  /\ pc[c] \in {"swept", "staleClose"}
  /\ pc'[c] \in {"evictClose", "creating"}

\* the map loses the entry at position i and nothing else
RemovedExactly(i) ==
  /\ Len(entries') = Len(entries) - 1
  /\ \A j \in 1..Len(entries') :
       entries'[j] = IF j < i THEN entries[j] ELSE entries[j + 1]

\* C33: an acquire that finds no usable entry for its key while the pool
\* holds maxAgents entries or more evicts exactly one entry before it creates
\* its session, the one with the smallest lastUsedAt of all entries; with
\* fewer entries it evicts none; the creation adds the new entry only; and
\* lastUsedAt of a stored entry is set to the clock by every reuse and by
\* every release
C33_EvictsLeastRecentlyUsed ==
  [][\A c \in Calls :
       /\ RunsEvictOldest(c) =>
            IF Len(entries) >= PoolMaxAgents
              THEN /\ pc'[c] = "evictClose"
                   /\ \E i \in 1..Len(entries) :
                        /\ RemovedExactly(i)
                        /\ \A j \in 1..Len(entries) :
                             entries[i].lastUsedAt <= entries[j].lastUsedAt
                        /\ closing'[c] = entries[i].sess
              ELSE pc'[c] = "creating" /\ entries' = entries
       /\ (pc[c] = "evictClose" /\ pc'[c] = "creating") => entries' = entries
       /\ (pc[c] = "creating" /\ pc'[c] = "holding") =>
            /\ Len(entries') = Len(entries) + 1
            /\ \A j \in 1..Len(entries) : entries'[j] = entries[j]
            /\ entries'[Len(entries')].sess = c
       /\ (pc[c] = "probing" /\ pc'[c] = "holding") =>
            \A j \in 1..Len(entries') :
              entries'[j].sess = entryOf[c] => entries'[j].lastUsedAt = now
       /\ (pc[c] = "holding" /\ pc'[c] = "released") =>
            \A j \in 1..Len(entries') :
              entries'[j].key = KeyOf(c) => entries'[j].lastUsedAt = now
  ]_vars

\* with the pool full, an acquire on a third key has evicted the session that
\* was stored second, whose lease was released before the session stored
\* first was last used
C33_Witness ==
  \E c \in Calls : \E a \in Calls :
    /\ pc[c] = "evictClose" /\ evictedBy[closing[c]] = "capacity"
    /\ entryOf[a] = closing[c] /\ pc[a] = "released"
    /\ Len(entries) = PoolMaxAgents - 1
    /\ entries[1].sess < closing[c]
    /\ relTime[a] < entries[1].lastUsedAt

\* ------------------------------------------------------------------------
\* Outcome verification: claims
\* ------------------------------------------------------------------------
\* the URL differs from the submitted one and is outside the operation path
NavigatedAway(p) == p.url # "op" /\ p.url \notin {"op", "opAlt"}

\* the classification of the deciding poll: error when the error text was
\* visible; else success when the success text was visible or the page had
\* navigated away; unknown only at the timeout, with nothing seen in the
\* last poll; a failed step carries the outcome's reason
PollClassified ==
  /\ wp.outcome.state = "error" <=> wp.atErr.err
  /\ wp.outcome.state = "success" <=>
       (~wp.atErr.err /\ (wp.atSucc.succ \/ NavigatedAway(wp.atSucc)))
  /\ wp.outcome.state = "unknown" <=>
       (wp.timedOut /\ ~wp.atErr.err /\ ~wp.atSucc.succ /\ ~NavigatedAway(wp.atSucc))
  /\ wp.outcome.state = "unknown" => wp.outcome.reason = NoSignalReason
  /\ wp.step.status = (IF wp.outcome.state = "success" THEN "ok" ELSE "failed")
  /\ wp.step.status = "failed" => wp.step.error = wp.outcome.reason

\* C34 as stated: each poll is classified in the order error text, success
\* text, navigation away, unknown only at the timeout, and an error outcome
\* has the visible error text as its reason
C34_AsStated ==
  wp.pc = "returned" =>
    /\ PollClassified
    /\ wp.outcome.state = "error" => wp.outcome.reason = ErrorTextReason

\* C34: each poll is classified in the order error text, success text,
\* navigation away: a visible error text yields error, also with the success
\* text visible or the page outside the operation path, and the reason is
\* the text when it can still be read after the visibility test and a
\* generic message when it is gone by then; a visible success text or a URL
\* that differs from the submitted one and is outside the operation path
\* yields success; with none seen before the timeout the outcome is unknown,
\* never error
C34_PollOrder ==
  wp.pc = "returned" =>
    /\ PollClassified
    /\ wp.outcome.state = "error" =>
         wp.outcome.reason = (IF wp.page.err THEN ErrorTextReason ELSE ErrorDetectedReason)

\* the second poll saw the error text while the success text was visible and
\* the page had left the operation path: the outcome is error, with the text
C34_Witness ==
  /\ wp.pc = "returned" /\ wp.polls = 1
  /\ wp.atErr = [err |-> TRUE, succ |-> TRUE, url |-> "away"]
  /\ wp.outcome.state = "error" /\ wp.outcome.reason = ErrorTextReason
  /\ wp.step = [status |-> "failed", error |-> ErrorTextReason]

\* ------------------------------------------------------------------------
\* Funds job: claims on the second submit and the step history
\* ------------------------------------------------------------------------
\* the URL is on the operation page
OnOperationPage(url) == url \in {"op", "opAlt"}

\* C35: a funds job clicks submit at most twice; the second click is made
\* once, after the first verification returned unknown and with the page URL
\* read after it still on the operation page; with the page navigated away
\* by then no second click is made
C35_AtMostOneResubmit ==
  /\ [](fj.clicks <= 2)
  /\ [][(fj'.clicks # fj.clicks /\ fj.clicks >= 1) =>
          /\ fj.clicks = 1 /\ fj'.clicks = 2
          /\ fj.first.state = "unknown" /\ fj.second = NoOutcome
          /\ OnOperationPage(fj.url)]_vars
  /\ [](fj.clicks = 2 => fj.first.state = "unknown")
  /\ []((fj.first.state = "unknown" /\ fj.second = NoOutcome /\ ~OnOperationPage(fj.url))
          => fj.clicks <= 1)

\* the submit button was clicked a second time after a verification without
\* a signal on the operation page
C35_Witness ==
  /\ fj.pc = "verify2" /\ fj.clicks = 2
  /\ fj.first.state = "unknown" /\ fj.url = "opAlt"

\* C36: the step history carried by a failed funds job is never empty and
\* ends with a step of status failed, every state from authenticate through
\* verify-outcome having appended its step (as claimed; a failed login
\* appends nothing)
C36_FailedJobEndsWithFailedStep ==
  fj.result = "failed" =>
    /\ fj.steps # <<>>
    /\ fj.steps[Len(fj.steps)].status = "failed"

\* C37: a selected row that shows no parseable balance leaves the snapshot
\* empty without failing the locate-and-open step: that step is never failed
\* for the missing balance, and the sequence goes on (as claimed; the code
\* throws inside the step)
C37_MissingBalanceTolerated ==
  fj.row = "noBalance" =>
    /\ fj.before = NoBalance
    /\ \A i \in 1..Len(fj.steps) :
         fj.steps[i].name = getOperationStepNames(fj.op).openAction =>
           fj.steps[i].status = "ok"
    /\ fj.result # "failed" \/ fj.error.step # getOperationStepNames(fj.op).openAction

\* a job that has finished
Finished(j) == jobs[j].status \in {"succeeded", "failed"}

\* C38: with executors that always return or throw, every enqueued job ends
\* succeeded or failed: an unfinished job is queued at the limiter or held by
\* a callback in a slot, never lost, a finished job stays finished, and every
\* queued or running job eventually finishes, whatever the jobs before it did
C38_EveryJobFinishes ==
  /\ [](\A j \in JobIds :
         /\ jobs[j].status = "queued" => Count(limQueue, j) = 1
         /\ jobs[j].status = "running" => j \in executing /\ j \in limActive)
  /\ [][\A j \in JobIds : Finished(j) => jobs'[j] = jobs[j]]_vars
  /\ \A j \in JobIds :
       (jobs[j].status \in {"queued", "running"}) ~> Finished(j)

\* all jobs have finished, in a mix of failures and successes, and the
\* limiter is idle again
C38_Witness ==
  /\ \A j \in JobIds : Finished(j)
  /\ limActive = {} /\ limQueue = <<>>
  /\ jobs[1].status = "failed" /\ jobs[2].status = "succeeded"
  /\ jobs[MaxJobs - 1].status = "failed" /\ jobs[MaxJobs].status = "succeeded"

\* C39: an acquire that fails after it took the mutex of its key has
\* released that mutex when the error reaches its caller, and an acquire on
\* the same key that waits behind it is eventually granted the mutex (as
\* claimed; the code has no finally around the sweep, the probe and
\* createSession)
C39_FailedAcquireUnlocks ==
  /\ [](\A a \in Calls : pc[a] = "failed" => unlocked[a])
  /\ \A a \in Calls : \A b \in Calls :
       (pc[a] = "failed" /\ pc[b] = "waitLock" /\ prev[b] = a)
         ~> (pc[b] # "waitLock")

\* call c is a pooled acquire that waits for the mutex of its key or holds
\* it: from its registration in the lock table to the finishLock of its lease
HoldsOrWaits(c) ==
  /\ Pooled(c)
  /\ pc[c] \in {"waitLock", "sweepClose", "swept", "probing", "staleClose",
                "evictClose", "creating", "holding", "invClose"}

\* call c runs finishLock in this step
FinishesLock(c) == ~unlocked[c] /\ unlocked'[c]

\* C40: the lock table has an entry for a key exactly while some acquire on
\* that key holds or waits for the mutex; the finishLock of the call that
\* registered last removes the entry, and the finishLock of an earlier call
\* leaves the entry of a later waiter in place (as claimed; an acquire whose
\* createSession failed leaves its entry behind, see C39)
C40_LockEntryWhileHeldOrWaited ==
  /\ [](\A k \in DOMAIN locks :
         locks[k] # 0 <=> \E c \in Calls : HoldsOrWaits(c) /\ KeyOf(c) = k)
  /\ [][\A c \in Calls :
          FinishesLock(c) =>
            IF locks[KeyOf(c)] = c
              THEN locks' = [locks EXCEPT ![KeyOf(c)] = 0]
              ELSE locks' = locks /\ locks[KeyOf(c)] > c]_vars

====
